---- MODULE Spec2Model ----
(***************************************************************************)
(* State-machine model of the command orchestration core:                  *)
(*   - Orchestrator          (src/src/core/orchestrator.py)                *)
(*   - MCPClient             (src/src/integrations/mcp_client.py)          *)
(*   - JiraAgent / ConfluenceAgent caches (src/src/agents/*.py)            *)
(* Each component has its own specification (SpecOrch, SpecMcp, SpecCache) *)
(* over the shared variable list; the variables of the other components    *)
(* stay at their initial values.                                           *)
(***************************************************************************)
EXTENDS Integers, Sequences, FiniteSets, TLC

VARIABLES
    agents,             \* Orchestrator.agents: name -> agent instance
    command_history,    \* Orchestrator.command_history
    response_cache,     \* Orchestrator.response_cache: key -> AgentResponse
    command_semaphore,  \* Orchestrator.command_semaphore._value
    sem_waiters,        \* FIFO of execute_command calls blocked on the semaphore
    calls,              \* the execute_command coroutines, by call number
    ret,                \* what the most recent execute_command return handed back
    connected,          \* MCPClient.connected
    session,            \* MCPClient.session: None or the open ClientSession
    conn,               \* the connect() coroutine and what it last returned
    req,                \* the request() coroutine: its loop state and its outcome
    ok_since,           \* a connect() returned True since construction / last disconnect()
    last_op,            \* the MCPClient operation that took the latest step
    disc,               \* the run of consecutive disconnect() calls and where it began
    agent_kind,         \* which adapter this run is about: "jira" or "confluence"
    now,                \* datetime.now(), in seconds
    cache,              \* the adapter's self.cache: key -> [val, ts]
    last_cleanup,       \* the adapter's self._last_cleanup
    backend,            \* how many writes the backend has applied
    ops,                \* the adapter operations, numbered in the order they start
    lookup,             \* the most recent direct _get_cache call and what it did
    sd,                 \* the Orchestrator.shutdown() coroutine
    registration,       \* per name: the last register_agent call and whether it warned
    coord,              \* a coordinator object: its kind and what initialize() set
    chat,               \* the chat_execute call in progress or last returned
    found               \* the most recent find_project_by_name call and its result

orchVars == <<agents, command_history, response_cache, command_semaphore,
              sem_waiters, calls, ret>>

mcpVars == <<connected, session, conn, req, ok_since, last_op, disc>>

cacheVars == <<agent_kind, now, cache, last_cleanup, backend, ops>>

ttlVars == <<lookup>>

sdVars == <<sd>>

regVars == <<registration>>

coordVars == <<coord, chat>>

findVars == <<found>>

vars == <<orchVars, mcpVars, cacheVars, ttlVars, sdVars, regVars, coordVars, findVars>>

\* What the operations of one component leave alone.
nonOrchVars == <<mcpVars, cacheVars, ttlVars, sdVars, regVars, coordVars, findVars>>
nonMcpVars == <<orchVars, cacheVars, ttlVars, sdVars, regVars, coordVars, findVars>>
nonCacheVars == <<orchVars, mcpVars, ttlVars, sdVars, regVars, coordVars, findVars>>
nonCoordVars == <<orchVars, mcpVars, cacheVars, ttlVars, sdVars, regVars, findVars>>

(***************************************************************************)
(* Values                                                                  *)
(***************************************************************************)
\* Python's None
NoneVal == "<None>"

\* Number of execute_command calls issued in one run of the model.
MaxCalls == 2

\* Orchestrator(max_concurrent_commands=...): the configured bound.
max_concurrent_commands == 1

Calls == 1..MaxCalls

\* Names under which agents get registered, and the instances registered.
AgentNames == {"jira_agent", "confluence_agent"}
Instances == {"inst1"}
Replacements == {"inst2"}

\* CommandType (src/src/core/types.py)
JiraTypes == {"jira_issue", "jira_project", "jira_sprint"}
ConfluenceTypes == {"confluence_page", "confluence_space"}
MultiTypes == {"project_management", "scrum_master"}
CommandType == JiraTypes \cup ConfluenceTypes \cup MultiTypes \cup {"unknown"}

\* Command ids are strings; they are modelled as sequences of tokens so that
\* f"{command_id}_{agent_name}" and str.startswith are computed, not assumed.
IdA == <<"a">>
IdAB == <<"a", "_", "b">>

\* The commands callers submit: ids repeat, every routing class occurs, the
\* timestamp is absent or supplied.
Commands ==
    { [command_id |-> IdA,  command_type |-> "jira_issue",         timestamp |-> NoneVal,
       action |-> "get", parameters |-> "p1", priority |-> 1],
      [command_id |-> IdA,  command_type |-> "project_management", timestamp |-> "t50",
       action |-> "create", parameters |-> "p2", priority |-> 2],
      [command_id |-> IdAB, command_type |-> "confluence_page",    timestamp |-> NoneVal,
       action |-> "create", parameters |-> "p1", priority |-> 1],
      [command_id |-> IdAB, command_type |-> "unknown",            timestamp |-> "t50",
       action |-> "get", parameters |-> "p2", priority |-> 1] }

\* time.time() readings
ClockReadings == {"t100"}

\* What an agent's execute_command returns, and the messages it raises with.
AgentData(p) == {"data of call " \o ToString(p)}
AgentErrors == {"boom", "timeout"}

(***************************************************************************)
(* Orchestrator: pure helpers                                              *)
(***************************************************************************)
AgentResponse(agent_name, success, data, error_message) ==
    [agent_name |-> agent_name, success |-> success, data |-> data,
     error_message |-> error_message]

\* The characters of a name, split at underscores.
NameTokens(name) ==
    CASE name = "jira_agent" -> <<"jira", "_", "agent">>
      [] name = "confluence_agent" -> <<"confluence", "_", "agent">>
      [] OTHER -> <<name>>

CacheKeyBare(command_id, agent_name) == command_id

\* f"{command.command_id}_{res.agent_name}"
CacheKey(command_id, agent_name) == command_id \o <<"_">> \o NameTokens(agent_name)

\* str.startswith
StartsWith(s, prefix) ==
    /\ Len(prefix) <= Len(s)
    /\ SubSeq(s, 1, Len(prefix)) = prefix

RouteCommandElse(command_type, registered) ==
    IF command_type \in JiraTypes
    THEN IF "jira_agent" \in registered THEN <<"jira_agent">> ELSE <<>>
    ELSE IF command_type \in ConfluenceTypes
    THEN IF "confluence_agent" \in registered THEN <<"confluence_agent">> ELSE <<>>
    ELSE (IF "jira_agent" \in registered THEN <<"jira_agent">> ELSE <<>>)
         \o (IF "confluence_agent" \in registered THEN <<"confluence_agent">> ELSE <<>>)

RouteCommandFirst(command_type, registered) ==
    IF command_type \in JiraTypes \cup MultiTypes
    THEN IF "jira_agent" \in registered THEN <<"jira_agent">> ELSE <<>>
    ELSE IF command_type \in ConfluenceTypes
    THEN IF "confluence_agent" \in registered THEN <<"confluence_agent">> ELSE <<>>
    ELSE <<>>

\* Orchestrator._route_command
RouteCommand(command_type, registered) ==
    IF command_type \in JiraTypes
    THEN IF "jira_agent" \in registered THEN <<"jira_agent">> ELSE <<>>
    ELSE IF command_type \in ConfluenceTypes
    THEN IF "confluence_agent" \in registered THEN <<"confluence_agent">> ELSE <<>>
    ELSE IF command_type \in MultiTypes
    THEN (IF "jira_agent" \in registered THEN <<"jira_agent">> ELSE <<>>)
         \o (IF "confluence_agent" \in registered THEN <<"confluence_agent">> ELSE <<>>)
    ELSE <<>>

\* return [AgentResponse("orchestrator", False, None, f"No agents for ...")]
NoTargetsResult(cmd) ==
    <<AgentResponse("orchestrator", FALSE, NoneVal, "No agents for " \o cmd.command_type)>>

ExecuteAgentCommandSwallow(agent_name, raised, payload) ==
    AgentResponse(agent_name, TRUE, IF raised THEN NoneVal ELSE payload, NoneVal)

\* Orchestrator._execute_agent_command: the agent's return value or exception,
\* wrapped into an AgentResponse.
ExecuteAgentCommand(agent_name, raised, payload) ==
    IF raised
    THEN AgentResponse(agent_name, FALSE, NoneVal, payload)
    ELSE AgentResponse(agent_name, TRUE, payload, NoneVal)

\* A task of the gather: the agent call of one target.
NewTask(agent_name, inst) ==
    [agent |-> agent_name, inst |-> inst, state |-> "pending",
     raised |-> FALSE, payload |-> NoneVal, order |-> 0,
     res |-> [exc |-> FALSE, val |-> AgentResponse(NoneVal, FALSE, NoneVal, NoneVal)]]

\* tasks = [self._execute_agent_command(self.agents[name], name, command) ...]
CreateTasks(targets, registry) ==
    [i \in 1..Len(targets) |-> NewTask(targets[i], registry[targets[i]])]

AllDoneOrExpired(tasks) == TRUE

\* The await of the gather ends when every task has ended, and not before.
AllDone(tasks) == \A i \in 1..Len(tasks) : tasks[i].state = "done"

GatherByCompletion(tasks) ==
    [i \in 1..Len(tasks) |->
        tasks[CHOOSE j \in 1..Len(tasks) : tasks[j].order = i].res]

\* asyncio.gather(*tasks, return_exceptions=True): results in task order.
Gather(tasks) == [i \in 1..Len(tasks) |-> tasks[i].res]

\* The loop over enumerate(results): the returned list.
Responses(targets, results) ==
    [i \in 1..Len(results) |->
        IF results[i].exc
        THEN AgentResponse(targets[i], FALSE, NoneVal, results[i].val)
        ELSE results[i].val]

StoredAll(results) == {i \in 1..Len(results) : ~results[i].exc}

\* The indices whose response the loop stores: res.success.
Stored(results) ==
    {i \in 1..Len(results) : ~results[i].exc /\ results[i].val.success}

ResponseCacheAfterWith(rc, command_id, results, S) ==
    LET keyOf(i) == CacheKey(command_id, results[i].val.agent_name)
        last(k) == CHOOSE i \in S : keyOf(i) = k /\ \A j \in S : keyOf(j) = k => j <= i
    IN  [k \in DOMAIN rc \cup {keyOf(i) : i \in S} |->
            IF \E i \in S : keyOf(i) = k THEN results[last(k)].val ELSE rc[k]]

\* self.response_cache[f"{command.command_id}_{res.agent_name}"] = res
ResponseCacheAfter(rc, command_id, results) ==
    ResponseCacheAfterWith(rc, command_id, results, Stored(results))

AcquiredPerTarget(value, targets) == value - Len(targets)

\* asyncio.Semaphore.acquire() with a free slot: self._value -= 1, once per
\* `async with`, whatever the targets.
Acquired(value, targets) == value - 1

ReleasedNot(value) == value

\* asyncio.Semaphore.release(): self._value += 1
Released(value) == value + 1

SemLockedNever == FALSE

\* asyncio.Semaphore.locked(): no free slot, or somebody queued before us.
SemLocked == command_semaphore = 0 \/ sem_waiters # <<>>

\* What get_command_status returns for None.
NoStatus == [absent |-> TRUE]

GetCommandStatusUnfiltered(command_id) ==
    LET matching == {i \in 1..Len(command_history) :
                        command_history[i].command_id = command_id}
    IN  IF matching = {} THEN NoStatus
        ELSE [command |-> command_history[CHOOSE i \in matching :
                                             \A j \in matching : i <= j],
              responses |-> response_cache,
              total_agents |-> Cardinality(DOMAIN agents),
              responding_agents |-> Cardinality(DOMAIN response_cache)]

\* Orchestrator.get_command_status: the first command of History with the id,
\* the cache entries whose key starts with f"{command_id}_", and the counts.
GetCommandStatus(command_id) ==
    LET matching == {i \in 1..Len(command_history) :
                        command_history[i].command_id = command_id}
        names == {name \in DOMAIN response_cache :
                     StartsWith(name, command_id \o <<"_">>)}
    IN  IF matching = {} THEN NoStatus
        ELSE [command |-> command_history[CHOOSE i \in matching :
                                             \A j \in matching : i <= j],
              responses |-> [name \in names |-> response_cache[name]],
              total_agents |-> Cardinality(DOMAIN agents),
              responding_agents |-> Cardinality(names)]

\* The ids get_command_status is asked about.
StatusIds == {IdA, IdAB, <<"c">>}

\* Orchestrator.get_system_status
GetSystemStatus ==
    [total_agents |-> Cardinality(DOMAIN agents),
     registered_agents |-> DOMAIN agents,
     total_commands |-> Len(command_history),
     cached_responses |-> Cardinality(DOMAIN response_cache),
     max_concurrent_commands |-> max_concurrent_commands,
     available_concurrent_slots |-> command_semaphore]

(***************************************************************************)
(* Orchestrator: state machine                                             *)
(***************************************************************************)
NoCommand ==
    [command_id |-> <<>>, command_type |-> NoneVal, timestamp |-> NoneVal,
     action |-> NoneVal, parameters |-> NoneVal, priority |-> 0]

IdleCall == [pc |-> "idle", command |-> NoCommand, targets |-> <<>>, tasks |-> <<>>]

\* A call that has returned: its frame is gone.
DoneCall == [pc |-> "done", command |-> NoCommand, targets |-> <<>>, tasks |-> <<>>]

NoReturn ==
    [n |-> 0, call |-> 0, command |-> NoCommand, targets |-> <<>>, tasks |-> <<>>,
     responses |-> <<>>, slot |-> FALSE, cache_before |-> <<>>, cache_after |-> <<>>]

InitOrch ==
    /\ agents = <<>>
    /\ registration = <<>>
    /\ command_history = <<>>
    /\ response_cache = <<>>
    /\ command_semaphore = max_concurrent_commands
    /\ sem_waiters = <<>>
    /\ calls = [p \in Calls |-> IdleCall]
    /\ ret = NoReturn

SetAgentKeepsFirst(registry, name, inst) ==
    [n \in DOMAIN registry \cup {name} |->
        IF n \in DOMAIN registry THEN registry[n] ELSE inst]

\* self.agents[agent_name] = agent_instance
SetAgent(registry, name, inst) ==
    [n \in DOMAIN registry \cup {name} |->
        IF n = name THEN inst ELSE registry[n]]

\* Orchestrator.register_agent: the warning of line 27 when the name is
\* already registered, then the assignment of line 28. The call has no
\* suspension point and no failing path.
RegisterAgent(name, inst) ==
    /\ registration' = (name :> [inst |-> inst, warned |-> name \in DOMAIN agents])
                            @@ registration
    /\ agents' = SetAgent(agents, name, inst)
    /\ UNCHANGED <<command_history, response_cache, command_semaphore,
                   sem_waiters, calls, ret>>
    /\ UNCHANGED <<mcpVars, cacheVars, ttlVars, sdVars, coordVars, findVars>>

\* A get_command_status(command_id) call: it has no suspension point and
\* assigns nothing.
GetCommandStatusCall(command_id) ==
    /\ command_id \in StatusIds
    /\ UNCHANGED orchVars
    /\ UNCHANGED nonOrchVars

StampAlways(command, start_time) == [command EXCEPT !.timestamp = start_time]

\* Lines 46-48: stamp the timestamp when it is absent.
Stamp(command, start_time) ==
    IF command.timestamp = NoneVal
    THEN [command EXCEPT !.timestamp = start_time]
    ELSE command

AppendToHistoryFirst(history, cmd) == <<cmd>> \o history

AppendToHistoryTwice(history, cmd) == Append(Append(history, cmd), cmd)

\* self.command_history.append(command)
AppendToHistory(history, cmd) == Append(history, cmd)

\* Calls are numbered in the order they are started.
CanStart(p) ==
    /\ calls[p].pc = "idle"
    /\ IF p = 1 THEN TRUE ELSE calls[p - 1].pc # "idle"

\* execute_command, zero targets: lines 46-53, no suspension point.
StartNoTargets(p, command, start_time) ==
    LET cmd == Stamp(command, start_time)
        targets == RouteCommand(cmd.command_type, DOMAIN agents)
    IN  /\ CanStart(p)
        /\ targets = <<>>
        /\ command_history' = AppendToHistory(command_history, cmd)
        /\ calls' = [calls EXCEPT ![p] = DoneCall]
        /\ ret' = [n |-> ret.n + 1, call |-> p, command |-> cmd, targets |-> targets,
                   tasks |-> <<>>,
                   responses |-> NoTargetsResult(cmd),
                   slot |-> FALSE,
                   cache_before |-> response_cache,
                   cache_after |-> response_cache]
        /\ UNCHANGED <<agents, response_cache, command_semaphore, sem_waiters>>
        /\ UNCHANGED nonOrchVars

\* execute_command, a slot is free: lines 46-57 up to the await of the gather.
StartAcquire(p, command, start_time) ==
    LET cmd == Stamp(command, start_time)
        targets == RouteCommand(cmd.command_type, DOMAIN agents)
    IN  /\ CanStart(p)
        /\ targets # <<>>
        /\ ~SemLocked
        /\ command_history' = AppendToHistory(command_history, cmd)
        /\ command_semaphore' = Acquired(command_semaphore, targets)
        /\ calls' = [calls EXCEPT ![p] =
                        [pc |-> "executing", command |-> cmd, targets |-> targets,
                         tasks |-> CreateTasks(targets, agents)]]
        /\ UNCHANGED <<agents, response_cache, sem_waiters, ret>>
        /\ UNCHANGED nonOrchVars

\* execute_command, no slot free: lines 46-55, suspended in the acquire.
StartWait(p, command, start_time) ==
    LET cmd == Stamp(command, start_time)
        targets == RouteCommand(cmd.command_type, DOMAIN agents)
    IN  /\ CanStart(p)
        /\ targets # <<>>
        /\ SemLocked
        /\ command_history' = AppendToHistory(command_history, cmd)
        /\ sem_waiters' = Append(sem_waiters, p)
        /\ calls' = [calls EXCEPT ![p] =
                        [pc |-> "waiting", command |-> cmd, targets |-> targets,
                         tasks |-> <<>>]]
        /\ UNCHANGED <<agents, response_cache, command_semaphore, ret>>
        /\ UNCHANGED nonOrchVars

\* A waiter that was handed a slot resumes: line 56 and the await of line 57.
Resume(p) ==
    /\ calls[p].pc = "ready"
    /\ calls' = [calls EXCEPT ![p].pc = "executing",
                              ![p].tasks = CreateTasks(calls[p].targets, agents)]
    /\ UNCHANGED <<agents, command_history, response_cache, command_semaphore,
                   sem_waiters, ret>>
    /\ UNCHANGED nonOrchVars

\* How many tasks of a call have finished.
DoneCount(tasks) == Cardinality({i \in 1..Len(tasks) : tasks[i].state = "done"})

\* agent.execute_command(command) returns: line 75-76.
AgentReturns(p, i, data) ==
    /\ calls[p].pc = "executing"
    /\ i \in 1..Len(calls[p].tasks)
    /\ calls[p].tasks[i].state = "pending"
    /\ calls' = [calls EXCEPT ![p].tasks[i] =
                    [@ EXCEPT !.state = "done", !.raised = FALSE, !.payload = data,
                              !.order = DoneCount(calls[p].tasks) + 1,
                              !.res = [exc |-> FALSE,
                                       val |-> ExecuteAgentCommand(calls[p].tasks[i].agent, FALSE, data)]]]
    /\ UNCHANGED <<agents, command_history, response_cache, command_semaphore,
                   sem_waiters, ret>>
    /\ UNCHANGED nonOrchVars

\* agent.execute_command(command) raises: line 77-78.
AgentRaises(p, i, msg) ==
    /\ calls[p].pc = "executing"
    /\ i \in 1..Len(calls[p].tasks)
    /\ calls[p].tasks[i].state = "pending"
    /\ calls' = [calls EXCEPT ![p].tasks[i] =
                    [@ EXCEPT !.state = "done", !.raised = TRUE, !.payload = msg,
                              !.order = DoneCount(calls[p].tasks) + 1,
                              !.res = [exc |-> FALSE,
                                       val |-> ExecuteAgentCommand(calls[p].tasks[i].agent, TRUE, msg)]]]
    /\ UNCHANGED <<agents, command_history, response_cache, command_semaphore,
                   sem_waiters, ret>>
    /\ UNCHANGED nonOrchVars

\* The gather is complete: the slot is released (handed to the first waiter,
\* if any), lines 59-70 run without suspension and the call returns.
Complete(p) ==
    LET c == calls[p]
        results == Gather(c.tasks)
        rc == ResponseCacheAfter(response_cache, c.command.command_id, results)
    IN  /\ c.pc = "executing"
        /\ AllDone(c.tasks)
        /\ IF sem_waiters # <<>>
           THEN /\ sem_waiters' = Tail(sem_waiters)
                /\ command_semaphore' = command_semaphore
                /\ calls' = [calls EXCEPT ![p] = DoneCall,
                                          ![Head(sem_waiters)].pc = "ready"]
           ELSE /\ sem_waiters' = sem_waiters
                /\ command_semaphore' = Released(command_semaphore)
                /\ calls' = [calls EXCEPT ![p] = DoneCall]
        /\ response_cache' = rc
        /\ ret' = [n |-> ret.n + 1, call |-> p, command |-> c.command,
                   targets |-> c.targets, tasks |-> c.tasks,
                   responses |-> Responses(c.targets, results),
                   slot |-> TRUE,
                   cache_before |-> response_cache,
                   cache_after |-> rc]
        /\ UNCHANGED <<agents, command_history>>
        /\ UNCHANGED nonOrchVars

(***************************************************************************)
(* Orchestrator: claims                                                    *)
(***************************************************************************)
\* The routing table of the design: the agents a category is meant for.
MeantFor(command_type) ==
    IF command_type \in JiraTypes THEN {"jira_agent"}
    ELSE IF command_type \in ConfluenceTypes THEN {"confluence_agent"}
    ELSE IF command_type \in MultiTypes THEN {"jira_agent", "confluence_agent"}
    ELSE {}

\* The step accepts a command (appends it to History).
Accepts == Len(command_history') = Len(command_history) + 1

\* What the agent call behind task t must be reported as.
Reported(t) ==
    IF t.raised
    THEN AgentResponse(t.agent, FALSE, NoneVal, t.payload)
    ELSE AgentResponse(t.agent, TRUE, t.payload, NoneVal)

Successes(responses) == {i \in 1..Len(responses) : responses[i].success}
Returned(tasks) == {i \in 1..Len(tasks) : tasks[i].state = "done" /\ ~tasks[i].raised}

\* C1: a step that accepts a command whose category has no registered agent
\* returns at once exactly one response, success=false, agent_name
\* "orchestrator"; it takes no semaphore slot, queues nothing, leaves
\* ResponseCache as it is, and History grows by exactly that command.
C1_ZeroTargets ==
    [][ (Accepts /\ MeantFor(command_history'[Len(command_history')].command_type)
                        \cap DOMAIN agents = {})
        => /\ ret'.n = ret.n + 1
           /\ Len(ret'.responses) = 1
           /\ ret'.responses[1].agent_name = "orchestrator"
           /\ ret'.responses[1].success = FALSE
           /\ ~ret'.slot
           /\ command_semaphore' = command_semaphore
           /\ sem_waiters' = sem_waiters
           /\ response_cache' = response_cache
           /\ command_history' = Append(command_history, ret'.command)
           /\ calls'[ret'.call].pc = "done" ]_vars

\* C1 witness: a Jira command was answered by the orchestrator itself while an
\* agent (not the one it needs) is registered.
C1_Witness ==
    /\ ret.n > 0
    /\ ~ret.slot
    /\ ret.command.command_type \in JiraTypes
    /\ DOMAIN agents = {"confluence_agent"}
    /\ Len(command_history) > 0
    /\ Len(ret.responses) = 1

\* C2 (as stated): a call with N >= 1 targets, K of whose agent calls return
\* normally, returns N responses, K of them successful, and ResponseCache
\* gains exactly K entries.
C2_Original ==
    ret.slot =>
        LET N == Len(ret.targets)
            K == Cardinality(Returned(ret.tasks))
        IN  /\ Len(ret.responses) = N
            /\ Cardinality(Successes(ret.responses)) = K
            /\ Cardinality(DOMAIN ret.cache_after \ DOMAIN ret.cache_before) = K

\* C2 (amended): ... returns N responses, K of them successful, and writes
\* exactly K ResponseCache entries, one under "<id>_<agent>" of each agent
\* that returned, holding that agent's response; every other entry is left as
\* it was, and the cache grows by K minus the number of those keys an earlier
\* execution of the same command id had already filled.
C2_Amended ==
    ret.slot =>
        LET N == Len(ret.targets)
            ok == Returned(ret.tasks)
            K == Cardinality(ok)
            W == {CacheKey(ret.command.command_id, ret.targets[i]) : i \in ok}
        IN  /\ N >= 1
            /\ Len(ret.responses) = N
            /\ Cardinality(Successes(ret.responses)) = K
            /\ Cardinality(W) = K
            /\ DOMAIN ret.cache_after = DOMAIN ret.cache_before \cup W
            /\ \A i \in ok :
                  ret.cache_after[CacheKey(ret.command.command_id, ret.targets[i])]
                      = Reported(ret.tasks[i])
            /\ \A k \in DOMAIN ret.cache_before \ W :
                  ret.cache_after[k] = ret.cache_before[k]
            /\ Cardinality(DOMAIN ret.cache_after \ DOMAIN ret.cache_before)
                  = K - Cardinality(W \cap DOMAIN ret.cache_before)

\* C2 witness: two targets, one returned and one raised, and the returned
\* one's key was already in the cache from an earlier execution of the id.
C2_Witness ==
    /\ ret.slot
    /\ Len(ret.targets) = 2
    /\ Cardinality(Returned(ret.tasks)) = 1
    /\ \E i \in Returned(ret.tasks) :
          CacheKey(ret.command.command_id, ret.targets[i]) \in DOMAIN ret.cache_before

\* The execute_command calls inside the semaphore-guarded section.
InFanOut == {p \in Calls : calls[p].pc \in {"ready", "executing"}}

\* C3: at most max_concurrent_commands commands are inside the fan-out
\* section, and the available-slots value of get_system_status stays within
\* 0..max_concurrent_commands.
C3_ConcurrencyBound ==
    /\ Cardinality(InFanOut) <= max_concurrent_commands
    /\ GetSystemStatus.available_concurrent_slots >= 0
    /\ GetSystemStatus.available_concurrent_slots <= max_concurrent_commands

\* C3 witness: more routable commands than slots were issued: the section is
\* full and a further command waits.
C3_Witness ==
    /\ Cardinality(InFanOut) = max_concurrent_commands
    /\ \E p \in Calls : calls[p].pc = "waiting"
    /\ GetSystemStatus.available_concurrent_slots = 0

\* C4: an agent call that raised with message m is reported as
\* {agent_name: its target, success: false, error_message: m}, and every
\* sibling call of the same command ran to completion and is reported with
\* its own outcome.
C4_FailureIsolated ==
    ret.slot =>
        \A i \in 1..Len(ret.tasks) :
            ret.tasks[i].raised =>
                /\ ret.responses[i].agent_name = ret.targets[i]
                /\ ret.responses[i].success = FALSE
                /\ ret.responses[i].error_message = ret.tasks[i].payload
                /\ \A j \in 1..Len(ret.tasks) :
                      /\ ret.tasks[j].state = "done"
                      /\ ret.responses[j].success = ~ret.tasks[j].raised
                      /\ ~ret.tasks[j].raised => ret.responses[j].data = ret.tasks[j].payload

\* C4 witness: the first target raised "boom" before the second one had
\* finished, and the second one then returned normally.
C4_Witness ==
    /\ ret.slot
    /\ Len(ret.tasks) = 2
    /\ ret.tasks[1].raised /\ ret.tasks[1].payload = "boom" /\ ret.tasks[1].order = 1
    /\ ~ret.tasks[2].raised

\* C5: the returned list has at index i the response of the i-th routed
\* target, jira_agent before confluence_agent, whatever the completion order.
C5_OrderMatchesTargets ==
    ret.slot =>
        /\ Len(ret.responses) = Len(ret.targets)
        /\ \A i \in 1..Len(ret.targets) :
              /\ ret.tasks[i].agent = ret.targets[i]
              /\ ret.responses[i] = Reported(ret.tasks[i])
        /\ \A i, j \in 1..Len(ret.targets) :
              (ret.targets[i] = "jira_agent" /\ ret.targets[j] = "confluence_agent")
                  => i < j

\* C5 witness: confluence_agent (second target) completed before jira_agent,
\* with different outcomes.
C5_Witness ==
    /\ ret.slot
    /\ Len(ret.targets) = 2
    /\ ret.tasks[2].order = 1
    /\ ret.tasks[1].order = 2
    /\ ret.tasks[1].raised # ret.tasks[2].raised

\* "<command_id>_<agent_name>" written out.
KeyFor(command_id, agent_name) == command_id \o <<"_">> \o NameTokens(agent_name)

\* C25: every ResponseCache entry has success = true and sits under the key
\* "<command_id>_<agent_name>" of a submitted command and of the agent named
\* in the entry; an agent call that failed neither adds, replaces nor removes
\* the entry under its key, an earlier success under that key included.
C25_CacheHoldsSuccesses ==
    /\ \A k \in DOMAIN response_cache :
          /\ response_cache[k].success
          /\ \E i \in DOMAIN command_history :
                k = KeyFor(command_history[i].command_id, response_cache[k].agent_name)
    /\ ret.slot =>
          \A i \in 1..Len(ret.tasks) :
              ret.tasks[i].raised =>
                  LET k == KeyFor(ret.command.command_id, ret.targets[i])
                  IN  /\ k \in DOMAIN ret.cache_after <=> k \in DOMAIN ret.cache_before
                      /\ k \in DOMAIN ret.cache_before =>
                            ret.cache_after[k] = ret.cache_before[k]

\* C25 witness: an agent call failed while the cache held an earlier success
\* under the same id and agent, and the entry is still there.
C25_Witness ==
    /\ ret.slot
    /\ \E i \in 1..Len(ret.tasks) :
          /\ ret.tasks[i].raised
          /\ KeyFor(ret.command.command_id, ret.targets[i]) \in DOMAIN ret.cache_before
          /\ KeyFor(ret.command.command_id, ret.targets[i]) \in DOMAIN response_cache

\* C26: slots are never leaked: the free slots and the commands inside the
\* fan-out section always add up to max_concurrent_commands, so with nobody
\* inside the section every slot is free; and when the loop runs whatever is
\* ready and agent calls terminate, every waiting command gets a slot and
\* completes.
C26_NoSlotLeak ==
    /\ [](command_semaphore + Cardinality(InFanOut) = max_concurrent_commands)
    /\ [](InFanOut = {} => command_semaphore = max_concurrent_commands)
    /\ \A p \in Calls : (calls[p].pc = "waiting") ~> (calls[p].pc = "done")

\* The agent calls of call p that are running.
PendingTasks(p) == {i \in DOMAIN calls[p].tasks : calls[p].tasks[i].state = "pending"}

\* C27: a command holds exactly one slot for its whole fan-out, whatever the
\* number of agents it targets, and its agent calls exist only while it holds
\* that slot, one per target; so with bound B at most B commands, each with
\* at most 2 agent calls, are in flight.
C27_OneSlotPerCommand ==
    /\ command_semaphore = max_concurrent_commands - Cardinality(InFanOut)
    /\ \A p \in Calls :
          /\ calls[p].tasks # <<>> =>
                /\ calls[p].pc = "executing"
                /\ p \in InFanOut
                /\ Len(calls[p].tasks) = Len(calls[p].targets)
          /\ calls[p].pc = "executing" =>
                /\ Len(calls[p].tasks) \in 1..2
                /\ \A i \in DOMAIN calls[p].tasks :
                      calls[p].tasks[i].agent = calls[p].targets[i]
    /\ Cardinality({p \in Calls : PendingTasks(p) # {}}) <= max_concurrent_commands
    /\ Cardinality({<<p, i>> \in Calls \X (1..2) : i \in PendingTasks(p)})
          <= 2 * max_concurrent_commands

\* C27 witness: every slot is taken by a command with two agent calls
\* running, and a further command waits.
C27_Witness ==
    /\ command_semaphore = 0
    /\ Cardinality(InFanOut) = max_concurrent_commands
    /\ \A p \in InFanOut : Cardinality(PendingTasks(p)) = 2
    /\ \E p \in Calls : calls[p].pc = "waiting"

\* The command a step has appended to the history.
LastCommand == command_history'[Len(command_history')]

\* C28: there is no command-level deadline. A command leaves its fan-out only
\* when none of its agent calls is running, and a slot is freed only by such
\* a command; a command waiting for a slot leaves the wait only by being
\* handed the slot of a command that completes; a routable command submitted
\* when no slot is free waits; a command with zero targets returns in the
\* step that submits it, without touching the semaphore, whether a slot is
\* free or not.
C28_NoDeadline ==
    [][\A p \in Calls :
          /\ (calls[p].pc = "executing" /\ PendingTasks(p) # {}) =>
                calls'[p].pc = "executing"
          /\ command_semaphore' > command_semaphore =>
                \E q \in Calls :
                   /\ calls[q].pc = "executing"
                   /\ PendingTasks(q) = {}
                   /\ calls'[q].pc = "done"
          /\ (calls[p].pc = "waiting" /\ calls'[p].pc # "waiting") =>
                /\ calls'[p].pc = "ready"
                /\ \E q \in Calls \ {p} :
                      /\ calls[q].pc = "executing"
                      /\ PendingTasks(q) = {}
                      /\ calls'[q].pc = "done"
          /\ (calls[p].pc = "idle" /\ calls'[p].pc # "idle") =>
                IF RouteCommand(LastCommand.command_type, DOMAIN agents) = <<>>
                THEN /\ calls'[p].pc = "done"
                     /\ ret'.call = p /\ ret'.n = ret.n + 1 /\ ~ret'.slot
                     /\ command_semaphore' = command_semaphore
                     /\ sem_waiters' = sem_waiters
                ELSE IF command_semaphore = 0
                THEN calls'[p].pc = "waiting" /\ command_semaphore' = 0
                ELSE TRUE
    ]_vars

\* C28 witness: every slot is held by a command with an agent call still
\* running, and a command with zero targets has just returned.
C28_Witness ==
    /\ command_semaphore = 0
    /\ Cardinality({p \in Calls : PendingTasks(p) # {}}) = max_concurrent_commands
    /\ ret.n > 0 /\ ~ret.slot /\ ret.targets = <<>>
    /\ calls[ret.call].pc = "done"

\* The command the caller handed over and the command object after lines
\* 46-48 agree on every field, but for a timestamp that was absent and now
\* holds a clock reading.
StampedFrom(command, cmd) ==
    /\ DOMAIN cmd = DOMAIN command
    /\ \A f \in DOMAIN command \ {"timestamp"} : cmd[f] = command[f]
    /\ IF command.timestamp = NoneVal
       THEN cmd.timestamp \in ClockReadings
       ELSE cmd.timestamp = command.timestamp

\* C29: execute_command sets the timestamp only when it is absent. The
\* command it records is the submitted one with a supplied timestamp kept, or
\* with an absent one set to the clock reading; from then on the command is
\* what the call works on and returns, and neither it nor the history entry
\* changes again.
C29_TimestampOnlyWhenAbsent ==
    [][/\ Len(command_history') >= Len(command_history)
       /\ SubSeq(command_history', 1, Len(command_history)) = command_history
       /\ \A p \in Calls :
             /\ (calls[p].pc = "idle" /\ calls'[p].pc # "idle") =>
                   /\ Len(command_history') = Len(command_history) + 1
                   /\ \E command \in Commands : StampedFrom(command, LastCommand)
                   /\ IF calls'[p].pc = "done"
                      THEN ret'.command = LastCommand
                      ELSE calls'[p].command = LastCommand
             /\ calls[p].pc \in {"waiting", "ready", "executing"} =>
                   IF calls'[p].pc = "done"
                   THEN ret'.command = calls[p].command
                   ELSE calls'[p].command = calls[p].command
    ]_vars

\* C29 witness: a command submitted with a timestamp and one submitted
\* without have both been executed to the end.
C29_Witness ==
    /\ \E i, j \in DOMAIN command_history :
          /\ command_history[i].timestamp = "t50"
          /\ command_history[j].timestamp \in ClockReadings
    /\ \A p \in Calls : calls[p].pc = "done"
    /\ ret.slot

\* The calls that executed a command with the id. Calls are numbered in the
\* order they start and History is appended to at the start of each.
ExecutionsOf(id) ==
    {p \in Calls : p <= Len(command_history) /\ command_history[p].command_id = id}

\* The agents a command with the id can have been routed to.
RoutedAgents(id) ==
    UNION {{RouteCommand(command_history[p].command_type, DOMAIN agents)[i] :
              i \in DOMAIN RouteCommand(command_history[p].command_type, DOMAIN agents)} :
           p \in ExecutionsOf(id)}

\* C37: the responses get_command_status(id) reports were all produced by
\* executions of the command with exactly that id, so that responding_agents
\* exceeds neither the number of agents that command was routed to nor
\* total_agents, also for ids that are a prefix of another id up to an
\* underscore.
C37_StatusOfExactId ==
    \A id \in StatusIds :
        LET status == GetCommandStatus(id)
        IN  status # NoStatus =>
              /\ \A name \in DOMAIN status.responses :
                    \E p \in ExecutionsOf(id) : status.responses[name].data \in AgentData(p)
              /\ status.responding_agents <= Cardinality(RoutedAgents(id))
              /\ status.responding_agents <= status.total_agents

\* C26 witness: a command that had to wait has been handed the slot of a
\* command that completed.
C26_Witness ==
    /\ ret.slot
    /\ \E p \in Calls : calls[p].pc = "ready" /\ calls[ret.call].pc = "done"
    /\ command_semaphore = max_concurrent_commands - 1

\* Call p starts in this step.
Starts(p) == calls[p].pc = "idle" /\ calls'[p].pc # "idle"

\* The command call p was started with, as stamped (a call that is over at
\* once has handed it back with its return).
StartedWith(p) == IF calls'[p].pc = "done" THEN ret'.command ELSE calls'[p].command

\* C13: every execute_command call appends its command to History before its
\* first suspension point: the p-th call started puts its command at position
\* p of History in the step that starts it, nothing else changes History, and
\* every call still in flight (waiting for a slot, holding one) finds its
\* command at its own position whatever calls completed or acquired a slot in
\* the meantime.
C13_HistoryInCallOrder ==
    [][ /\ \A p \in Calls :
              Starts(p) =>
                  /\ Len(command_history') = p
                  /\ command_history' = Append(command_history, StartedWith(p))
        /\ (\A p \in Calls : ~Starts(p)) => command_history' = command_history
        /\ \A p \in Calls :
              calls'[p].pc \in {"waiting", "ready", "executing"} =>
                  /\ p <= Len(command_history')
                  /\ command_history'[p] = calls'[p].command ]_vars

\* C13 witness: the second call completed while the first, started before
\* it, is still executing; History holds them in call order.
C13_Witness ==
    /\ calls[1].pc = "executing"
    /\ calls[2].pc = "done"
    /\ ret.call = 2
    /\ Len(command_history) = 2
    /\ command_history[1] = calls[1].command
    /\ command_history[2] = ret.command
    /\ command_history[1] # command_history[2]

\* The command ids of a history.
HistoryIds(history) == {history[i].command_id : i \in 1..Len(history)}

UniqueIds(history) ==
    \A i \in 1..Len(history), j \in 1..Len(history) :
        history[i].command_id = history[j].command_id => i = j

KeysOf(command_id) ==
    {k \in DOMAIN response_cache :
        /\ Len(k) > Len(command_id)
        /\ \A n \in 1..Len(command_id) : k[n] = command_id[n]
        /\ k[Len(command_id) + 1] = "_"}

\* C15: get_command_status(id) returns None exactly when no command with
\* that id is in History; otherwise it returns a recorded command with that
\* id, the ResponseCache entries whose key starts with "<id>_",
\* responding_agents equal to their number and total_agents equal to the
\* number of registered agents.
C15_CommandStatus ==
    \A id \in StatusIds :
        LET status == GetCommandStatus(id)
        IN  /\ (status = NoStatus) <=> (id \notin HistoryIds(command_history))
            /\ status # NoStatus =>
                  /\ \E i \in 1..Len(command_history) : status.command = command_history[i]
                  /\ status.command.command_id = id
                  /\ DOMAIN status.responses = KeysOf(id)
                  /\ \A k \in KeysOf(id) : status.responses[k] = response_cache[k]
                  /\ status.responding_agents = Cardinality(KeysOf(id))
                  /\ status.total_agents = Cardinality(DOMAIN agents)

\* C15 witness: two commands are recorded and each has a cached response; the
\* status of the second holds its own response only, and an id that was never
\* recorded has no status.
C15_Witness ==
    /\ HistoryIds(command_history) = {IdA, IdAB}
    /\ Cardinality(DOMAIN response_cache) = 2
    /\ GetCommandStatus(IdAB) # NoStatus
    /\ GetCommandStatus(IdAB).responding_agents = 1
    /\ GetCommandStatus(IdAB).total_agents = 2
    /\ GetCommandStatus(<<"c">>) = NoStatus

\* The names a category is routed to, as a set, among the registered ones.
RoutingTable(command_type, registered) ==
    CASE command_type \in JiraTypes -> {"jira_agent"} \cap registered
      [] command_type \in ConfluenceTypes -> {"confluence_agent"} \cap registered
      [] command_type \in MultiTypes -> {"jira_agent", "confluence_agent"} \cap registered
      [] OTHER -> {}

\* The targets call p was routed to in the step that starts it.
RoutedTo(p) == IF calls'[p].pc = "done" THEN ret'.targets ELSE calls'[p].targets

\* C17: routing is a function of the category and the set of registered
\* names alone: Jira categories go to jira_agent only, Confluence categories
\* to confluence_agent only, PROJECT_MANAGEMENT and SCRUM_MASTER to each of the
\* two that is registered, UNKNOWN to none, never to an unregistered name and
\* never twice to one name; the routing of a submitted command leaves the
\* registry as it was.
C17_RoutingTable ==
    [][/\ \A command_type \in CommandType :
            LET targets == RouteCommand(command_type, DOMAIN agents)
            IN  /\ {targets[i] : i \in DOMAIN targets}
                        = RoutingTable(command_type, DOMAIN agents)
                /\ Len(targets) = Cardinality(RoutingTable(command_type, DOMAIN agents))
       /\ \A p \in Calls :
            Starts(p) =>
                /\ {RoutedTo(p)[i] : i \in DOMAIN RoutedTo(p)}
                        = RoutingTable(StartedWith(p).command_type, DOMAIN agents)
                /\ agents' = agents
                /\ response_cache' = response_cache
      ]_vars

\* A command of a category spanning both backends is being executed with only
\* confluence_agent registered, and it was routed to that agent alone.
C17_Witness ==
    \E p \in Calls :
        /\ calls[p].pc = "executing"
        /\ calls[p].command.command_type \in MultiTypes
        /\ DOMAIN agents = {"confluence_agent"}
        /\ calls[p].targets = <<"confluence_agent">>

NextOrch ==
    \/ \E name \in AgentNames, inst \in Instances : RegisterAgent(name, inst)
    \/ \E p \in Calls, command \in Commands, t \in ClockReadings :
          StartNoTargets(p, command, t)
    \/ \E p \in Calls, command \in Commands, t \in ClockReadings :
          StartAcquire(p, command, t)
    \/ \E p \in Calls, command \in Commands, t \in ClockReadings :
          StartWait(p, command, t)
    \/ \E p \in Calls : Resume(p)
    \/ \E p \in Calls, i \in 1..2 : \E data \in AgentData(p) : AgentReturns(p, i, data)
    \/ \E p \in Calls, i \in 1..2, msg \in AgentErrors : AgentRaises(p, i, msg)
    \/ \E p \in Calls : Complete(p)
    \/ \E command_id \in StatusIds : GetCommandStatusCall(command_id)

(***************************************************************************)
(* Orchestrator.shutdown                                                   *)
(***************************************************************************)
IdleShutdown ==
    [pc |-> "idle", todo |-> <<>>, pos |-> 0, size |-> 0, invoked |-> <<>>,
     failed |-> {}, outcome |-> "none", left_empty |-> FALSE, started |-> {}]

InitShutdown == sd = IdleShutdown

\* The orders self.agents.items() can yield the names in: the order of their
\* first registration, which can be any.
ItemOrders(names) ==
    {order \in [1..Cardinality(names) -> names] :
        \A i \in 1..Cardinality(names), j \in 1..Cardinality(names) :
            order[i] = order[j] => i = j}

\* next() of the dict iterator raises RuntimeError when the dict has changed
\* size since the iteration began.
ChangedSize == Cardinality(DOMAIN agents) # sd.size

\* The execute_command calls that have begun.
BegunCalls == {p \in Calls : calls[p].pc # "idle"}

\* shutdown() up to the await of the first agent's shutdown (lines 105-108);
\* with no agent registered the loop is empty and lines 111-112 follow at
\* once. Every agent instance has a shutdown method.
ShutdownBegin(order) ==
    /\ sd.pc = "idle"
    /\ order \in ItemOrders(DOMAIN agents)
    /\ IF order = <<>>
       THEN /\ response_cache' = <<>>
            /\ command_history' = <<>>
            /\ sd' = [sd EXCEPT !.pc = "done", !.outcome = "return", !.left_empty = TRUE,
                                !.started = BegunCalls]
       ELSE /\ sd' = [sd EXCEPT !.pc = "awaiting", !.todo = order, !.pos = 1,
                                !.size = Cardinality(DOMAIN agents),
                                !.invoked = <<order[1]>>]
            /\ UNCHANGED <<response_cache, command_history>>
    /\ UNCHANGED <<agents, command_semaphore, sem_waiters, calls, ret>>
    /\ UNCHANGED <<mcpVars, cacheVars, ttlVars, regVars, coordVars, findVars>>

\* The agent shutdown being awaited returns or raises (lines 108-110, a raise
\* is logged); the loop goes on to the next agent, or ends and lines 111-112
\* clear the cache and the history.
AgentShutdownEnds(raises) ==
    LET failed == IF raises THEN sd.failed \cup {sd.todo[sd.pos]} ELSE sd.failed
    IN  /\ sd.pc = "awaiting"
        /\ IF ChangedSize
           THEN /\ sd' = [sd EXCEPT !.pc = "done", !.failed = failed,
                                    !.outcome = "raise"]
                /\ UNCHANGED <<response_cache, command_history>>
           ELSE IF sd.pos < Len(sd.todo)
           THEN /\ sd' = [sd EXCEPT !.pos = sd.pos + 1, !.failed = failed,
                                    !.invoked = Append(sd.invoked, sd.todo[sd.pos + 1])]
                /\ UNCHANGED <<response_cache, command_history>>
           ELSE /\ response_cache' = <<>>
                /\ command_history' = <<>>
                /\ sd' = [sd EXCEPT !.pc = "done", !.failed = failed,
                                    !.outcome = "return", !.left_empty = TRUE,
                                !.started = BegunCalls]
        /\ UNCHANGED <<agents, command_semaphore, sem_waiters, calls, ret>>
        /\ UNCHANGED <<mcpVars, cacheVars, ttlVars, regVars, coordVars, findVars>>

\* C16: shutdown invokes shutdown exactly once on every registered agent even
\* when the shutdown of an earlier agent raises, never raises itself, and when
\* it returns both History and ResponseCache are empty.
C16_ShutdownSweep ==
    sd.pc = "done" =>
        /\ sd.outcome = "return"
        /\ sd.invoked = sd.todo
        /\ sd.left_empty

\* C38: in every reachable state, also when shutdown runs while commands are
\* in flight, each ResponseCache key belongs to a command that is present in
\* History; once shutdown has returned and the commands that were in flight
\* have finished (none begun since), ResponseCache and History are empty.
C38_CacheWithinHistory ==
    /\ \A k \in DOMAIN response_cache :
            \E id \in HistoryIds(command_history), name \in AgentNames :
                k = CacheKey(id, name)
    /\ (/\ sd.pc = "done"
        /\ sd.outcome = "return"
        /\ BegunCalls = sd.started
        /\ \A p \in Calls : calls[p].pc \in {"idle", "done"}) =>
            /\ response_cache = <<>>
            /\ command_history = <<>>

\* C18: register_agent is idempotent by name: registering a name that is
\* already registered leaves the number of registered agents unchanged and
\* makes the instance registered last the one that commands started later
\* are executed against; no registration changes History or ResponseCache.
C18_RegisterIdempotent ==
    [][/\ registration' # registration =>
            /\ command_history' = command_history
            /\ response_cache' = response_cache
            /\ \A name \in DOMAIN registration' :
                    registration'[name].warned =>
                        /\ name \in DOMAIN agents
                        /\ (\/ name \notin DOMAIN registration
                            \/ registration'[name] # registration[name]) =>
                                Cardinality(DOMAIN agents') = Cardinality(DOMAIN agents)
       /\ \A p \in Calls :
            (calls[p].pc # "executing" /\ calls'[p].pc = "executing") =>
                \A i \in DOMAIN calls'[p].tasks :
                    LET task == calls'[p].tasks[i]
                    IN  /\ task.agent \in DOMAIN registration
                        /\ task.inst = registration[task.agent].inst
      ]_vars

\* A command is being executed against an instance that replaced an earlier
\* registration of the same name.
C18_Witness ==
    \E p \in Calls :
        /\ calls[p].pc = "executing"
        /\ \E i \in DOMAIN calls[p].tasks :
                LET task == calls[p].tasks[i]
                IN  /\ task.inst \in Replacements
                    /\ registration[task.agent].warned
                    /\ registration[task.agent].inst = task.inst

\* The commands submitted around the registrations: one that routes to every
\* registered agent.
RegisterCommands == {command \in Commands : command.command_type \in MultiTypes}

\* Registrations of either instance under the names in use, and commands
\* executed against what is registered.
NextRegister ==
    \/ \E name \in AgentNames, inst \in Instances \cup Replacements :
          RegisterAgent(name, inst)
    \/ \E p \in Calls, command \in RegisterCommands, t \in ClockReadings :
          StartNoTargets(p, command, t)
    \/ \E p \in Calls, command \in RegisterCommands, t \in ClockReadings :
          StartAcquire(p, command, t)
    \/ \E p \in Calls, command \in RegisterCommands, t \in ClockReadings :
          StartWait(p, command, t)
    \/ \E p \in Calls : Resume(p)
    \/ \E p \in Calls, i \in 1..2 : \E data \in AgentData(p) : AgentReturns(p, i, data)
    \/ \E p \in Calls : Complete(p)

\* Commands routed to every registered agent, submitted while agents get
\* registered; the event loop runs a resumed or completed call, and agent
\* calls end.
NextFair ==
    \/ \E name \in AgentNames, inst \in Instances : RegisterAgent(name, inst)
    \/ \E p \in Calls, command \in RegisterCommands, t \in ClockReadings :
          StartNoTargets(p, command, t)
    \/ \E p \in Calls, command \in RegisterCommands, t \in ClockReadings :
          StartAcquire(p, command, t)
    \/ \E p \in Calls, command \in RegisterCommands, t \in ClockReadings :
          StartWait(p, command, t)
    \/ \E p \in Calls : Resume(p)
    \/ \E p \in Calls, i \in 1..2 : \E data \in AgentData(p) : AgentReturns(p, i, data)
    \/ \E p \in Calls, i \in 1..2 : AgentRaises(p, i, "boom")
    \/ \E p \in Calls : Complete(p)

\* The asyncio loop runs every callback that is ready, and every agent call
\* ends.
Fairness ==
    /\ WF_vars(\E p \in Calls : Resume(p))
    /\ WF_vars(\E p \in Calls : Complete(p))
    /\ WF_vars(\E p \in Calls, i \in 1..2 : \E data \in AgentData(p) :
                  AgentReturns(p, i, data))

NextShutdown ==
    \/ NextOrch
    \/ \E order \in ItemOrders(DOMAIN agents) : ShutdownBegin(order)
    \/ \E raises \in BOOLEAN : AgentShutdownEnds(raises)


(***************************************************************************)
(* MCPClient: values                                                       *)
(***************************************************************************)
\* MCPClient(max_retries=2)
max_retries == 2

\* The method argument of request(); method.upper() is applied to it.
Methods == {"GET", "post", "PUT", "DELETE", "PATCH"}

\* str.upper
Upper(m) == IF m = "post" THEN "POST" ELSE m

\* The if-chain of lines 114-125; anything else raises ValueError (line 126).
Supported(method_upper) == method_upper \in {"GET", "POST", "PUT", "DELETE"}

\* Statuses the liveness probe is answered with.
ProbeStatuses == {200, 503}

\* Responses of the server: status, Content-Type header, body.
HttpResponses ==
    { [status |-> 200, content_type |-> "application/json; charset=utf-8", body |-> "{json}"],
      [status |-> 200, content_type |-> "application/json", body |-> "<html>"],
      [status |-> 200, content_type |-> "text/html", body |-> "<html>"],
      [status |-> 404, content_type |-> "application/json", body |-> "{json}"],
      [status |-> 500, content_type |-> "text/html", body |-> "<html>"] }

\* Transport-level exceptions of an HTTP call (timeout, connection reset).
TransportErrors == {"TimeoutError", "ClientConnectionError"}

\* "application/json" in content_type
HasJsonMarker(content_type) ==
    content_type \in {"application/json", "application/json; charset=utf-8"}

\* Whether the body is a JSON document.
IsJson(body) == body = "{json}"

\* resp.json(): the parsed body, or a raise when the body (or its declared
\* type) is not JSON.
JsonOk(resp) == HasJsonMarker(resp.content_type) /\ IsJson(resp.body)

Returned_(value) == [kind |-> "return", value |-> value]
Raised_(error) == [kind |-> "raise", value |-> error]

\* MCPClient._parse_response
ParseResponse(resp) ==
    IF resp.status >= 400
    THEN Raised_(<<"ClientResponseError", resp.status,
                   IF JsonOk(resp) THEN <<"json", resp.body>> ELSE <<"error", resp.body>> >>)
    ELSE IF HasJsonMarker(resp.content_type)
    THEN IF JsonOk(resp)
         THEN Returned_(<<"json", resp.body>>)
         ELSE Raised_(<<"JSONDecodeError">>)
    ELSE Returned_(<<"text", resp.body>>)

IsLastEarly(attempt) == attempt >= max_retries - 1

\* is_last = attempt >= self.max_retries   (attempt counts from 0)
IsLast(attempt) == attempt >= max_retries

NotConnectedNoSession == session = NoneVal

\* if not self.connected or not self.session
NotConnected == ~connected \/ session = NoneVal

(***************************************************************************)
(* MCPClient: state machine                                                *)
(***************************************************************************)
IdleRequest ==
    [pc |-> "idle", method |-> NoneVal, attempt |-> 0, http_calls |-> 0,
     error_responses |-> 0, trace |-> <<>>, outcome |-> NoneVal,
     ok_at_start |-> FALSE]

InitMcp ==
    /\ connected = FALSE
    /\ session = NoneVal
    /\ conn = [pc |-> "idle", result |-> FALSE]
    /\ req = IdleRequest
    /\ ok_since = FALSE
    /\ last_op = "init"
    /\ disc = [run |-> 0, from_connected |-> FALSE, from_session |-> FALSE]

NoDisconnectRun == [run |-> 0, from_connected |-> FALSE, from_session |-> FALSE]

\* connect(), up to the await of the probe: lines 67-82.
ConnectBegin ==
    /\ conn.pc = "idle"
    /\ session' = "open"
    /\ conn' = [conn EXCEPT !.pc = "probing"]
    /\ last_op' = "connect"
    /\ disc' = NoDisconnectRun
    /\ UNCHANGED <<connected, req, ok_since>>
    /\ UNCHANGED nonMcpVars

\* The probe is answered: lines 83-86.
ConnectProbeResponds(status) ==
    /\ conn.pc = "probing"
    /\ connected' = (status = 200)
    /\ conn' = [pc |-> "idle", result |-> (status = 200)]
    /\ ok_since' = (ok_since \/ status = 200)
    /\ last_op' = "connect"
    /\ disc' = NoDisconnectRun
    /\ UNCHANGED <<session, req>>
    /\ UNCHANGED nonMcpVars

\* The probe raises: lines 87-89, the flag is left as it was.
ConnectProbeRaises ==
    /\ conn.pc = "probing"
    /\ conn' = [pc |-> "idle", result |-> FALSE]
    /\ last_op' = "connect"
    /\ disc' = NoDisconnectRun
    /\ UNCHANGED <<connected, session, req, ok_since>>
    /\ UNCHANGED nonMcpVars

DisconnectKeepsFlag ==
    /\ session' = NoneVal
    /\ connected' = connected
    /\ ok_since' = FALSE
    /\ last_op' = "disconnect"
    /\ disc' = IF last_op = "disconnect"
               THEN [disc EXCEPT !.run = IF disc.run < 2 THEN disc.run + 1 ELSE 2]
               ELSE [run |-> 1, from_connected |-> connected,
                     from_session |-> (session # NoneVal)]
    /\ UNCHANGED <<conn, req>>
    /\ UNCHANGED nonMcpVars

\* disconnect(): lines 91-95.
Disconnect ==
    /\ session' = NoneVal
    /\ connected' = FALSE
    /\ ok_since' = FALSE
    /\ last_op' = "disconnect"
    /\ disc' = IF last_op = "disconnect"
               THEN [disc EXCEPT !.run = IF disc.run < 2 THEN disc.run + 1 ELSE 2]
               ELSE [run |-> 1, from_connected |-> connected,
                     from_session |-> (session # NoneVal)]
    /\ UNCHANGED <<conn, req>>
    /\ UNCHANGED nonMcpVars

\* One round of the retry loop that ended in an exception (lines 127-138):
\* re-raise on the last round, otherwise start the next round at once. The
\* next round issues its HTTP call unless the method is unsupported
\* (ValueError) or the session is gone (AttributeError); those rounds fail
\* without a call and the loop goes on.
RECURSIVE AfterFailure(_, _)
AfterFailure(r, sess) ==
    IF IsLast(r.attempt)
    THEN [r EXCEPT !.pc = "done", !.outcome = Raised_(r.trace[Len(r.trace)].error)]
    ELSE IF ~Supported(Upper(r.method))
    THEN AfterFailure([r EXCEPT !.attempt = r.attempt + 1,
                                !.trace = Append(r.trace, [call |-> FALSE, ok |-> FALSE,
                                                           resp |-> <<>>, error |-> <<"ValueError">>])],
                      sess)
    ELSE IF sess = NoneVal
    THEN AfterFailure([r EXCEPT !.attempt = r.attempt + 1,
                                !.trace = Append(r.trace, [call |-> FALSE, ok |-> FALSE,
                                                           resp |-> <<>>, error |-> <<"AttributeError">>])],
                      sess)
    ELSE [r EXCEPT !.attempt = r.attempt + 1, !.http_calls = r.http_calls + 1]

\* request() while not connected: lines 104-105.
RequestRejected(method) ==
    /\ req.pc # "inflight"
    /\ NotConnected
    /\ req' = [IdleRequest EXCEPT !.pc = "done", !.method = method,
                                  !.outcome = Raised_(<<"ConnectionError">>),
                                  !.ok_at_start = ok_since]
    /\ last_op' = "request"
    /\ disc' = NoDisconnectRun
    /\ UNCHANGED <<connected, session, conn, ok_since>>
    /\ UNCHANGED nonMcpVars

\* request() with a supported method: lines 104-125, suspended in the first
\* HTTP call.
RequestBegin(method) ==
    /\ req.pc # "inflight"
    /\ ~NotConnected
    /\ Supported(Upper(method))
    /\ req' = [IdleRequest EXCEPT !.pc = "inflight", !.method = method,
                                  !.http_calls = 1, !.ok_at_start = ok_since]
    /\ last_op' = "request"
    /\ disc' = NoDisconnectRun
    /\ UNCHANGED <<connected, session, conn, ok_since>>
    /\ UNCHANGED nonMcpVars

\* request() with an unsupported method: every round raises ValueError
\* (line 126) inside the try; no suspension point is reached.
RequestUnsupported(method) ==
    /\ req.pc # "inflight"
    /\ ~NotConnected
    /\ ~Supported(Upper(method))
    /\ req' = AfterFailure(
                 [IdleRequest EXCEPT !.pc = "inflight", !.method = method,
                                     !.ok_at_start = ok_since,
                                     !.trace = <<[call |-> FALSE, ok |-> FALSE, resp |-> <<>>,
                                                  error |-> <<"ValueError">>]>>],
                 session)
    /\ last_op' = "request"
    /\ disc' = NoDisconnectRun
    /\ UNCHANGED <<connected, session, conn, ok_since>>
    /\ UNCHANGED nonMcpVars

\* The HTTP call in flight is answered: _parse_response runs inside the try.
HttpResponds(resp) ==
    LET parsed == ParseResponse(resp)
        entry == [call |-> TRUE, ok |-> parsed.kind = "return", resp |-> resp,
                  error |-> IF parsed.kind = "raise" THEN parsed.value ELSE <<>>]
        r == [req EXCEPT !.trace = Append(req.trace, entry),
                         !.error_responses =
                             IF resp.status >= 400 THEN req.error_responses + 1
                             ELSE req.error_responses]
    IN  /\ req.pc = "inflight"
        /\ req' = IF parsed.kind = "return"
                  THEN [r EXCEPT !.pc = "done", !.outcome = parsed]
                  ELSE AfterFailure(r, session)
        /\ last_op' = "request"
        /\ disc' = NoDisconnectRun
        /\ UNCHANGED <<connected, session, conn, ok_since>>
        /\ UNCHANGED nonMcpVars

\* The HTTP call in flight fails at transport level.
HttpFails(error) ==
    LET r == [req EXCEPT !.trace = Append(req.trace, [call |-> TRUE, ok |-> FALSE,
                                                       resp |-> <<>>,
                                                       error |-> <<error>>])]
    IN  /\ req.pc = "inflight"
        /\ req' = AfterFailure(r, session)
        /\ last_op' = "request"
        /\ disc' = NoDisconnectRun
        /\ UNCHANGED <<connected, session, conn, ok_since>>
        /\ UNCHANGED nonMcpVars

(***************************************************************************)
(* MCPClient: claims                                                       *)
(***************************************************************************)
\* The rounds of the retry loop that issued an HTTP call.
HttpRounds(trace) == {i \in 1..Len(trace) : trace[i].call}

\* request() got past the connection check and has finished.
Finished == req.pc = "done" /\ req.trace # <<>>

\* C6: a request that was answered with an HTTP status >= 400 is not retried:
\* no further HTTP call is in flight after such an answer, and the request
\* ends having made exactly one HTTP call.
C6_NoRetryOnHttpError ==
    /\ req.pc = "inflight" => req.error_responses = 0
    /\ (req.pc = "done" /\ req.error_responses > 0) => req.http_calls = 1

\* What the loop of request() guarantees for every finished request; Low is
\* the least number of HTTP calls claimed for an unsupported method.
RetryContract(Low) ==
    /\ req.pc = "inflight" =>
          /\ req.http_calls >= 1 /\ req.http_calls <= max_retries + 1
          /\ Len(req.trace) = req.http_calls - 1
    /\ Finished =>
          LET n == Len(req.trace)
              final == req.trace[n]
          IN  /\ n <= max_retries + 1
              /\ \A i \in 1..(n - 1) : ~req.trace[i].ok
              /\ req.http_calls = Cardinality(HttpRounds(req.trace))
              /\ final.ok =>
                    req.outcome =
                        Returned_(IF HasJsonMarker(final.resp.content_type)
                                  THEN <<"json", final.resp.body>>
                                  ELSE <<"text", final.resp.body>>)
              /\ ~final.ok =>
                    /\ n = max_retries + 1
                    /\ req.outcome = Raised_(final.error)
              /\ req.http_calls <= max_retries + 1
              /\ IF Supported(Upper(req.method))
                 THEN req.http_calls >= 1
                 ELSE /\ req.http_calls >= Low
                      /\ Low = 0 => /\ req.http_calls = 0
                                    /\ req.outcome = Raised_(<<"ValueError">>)

\* C7 (as stated): R failed attempts followed by a successful one return the
\* successful result; R+1 failed attempts raise the last attempt's exception;
\* in every case between 1 and R+1 HTTP attempts are made.
C7_Original == RetryContract(1)

\* C7 (amended): ... in every case at most R+1 HTTP attempts are made, and at
\* least 1 when the method is GET, POST, PUT or DELETE; with any other method
\* every round raises ValueError before an HTTP call is issued, so no HTTP
\* attempt is made and ValueError is raised.
C7_Amended == RetryContract(0)

\* C7 witness: exactly R transport failures, then a successful attempt whose
\* result was returned.
C7_Witness ==
    /\ Finished
    /\ Len(req.trace) = max_retries + 1
    /\ \A i \in 1..max_retries :
          req.trace[i].call /\ ~req.trace[i].ok /\ req.trace[i].error = <<"TimeoutError">>
    /\ req.trace[max_retries + 1].ok
    /\ req.outcome.kind = "return"
    /\ req.http_calls = max_retries + 1

\* C8: a request() invoked while no connect() has succeeded since
\* construction or since the last disconnect() raises ConnectionError and
\* issues no HTTP call.
C8_NotConnectedRejected ==
    (req.pc # "idle" /\ ~req.ok_at_start) =>
        /\ req.pc = "done"
        /\ req.outcome = Raised_(<<"ConnectionError">>)
        /\ req.http_calls = 0
        /\ req.trace = <<>>

\* C8 witness: connect() had succeeded, disconnect() followed, and the
\* request issued after it was rejected.
C8_Witness ==
    /\ last_op = "request"
    /\ req.pc = "done"
    /\ ~req.ok_at_start
    /\ conn.result
    /\ req.outcome = Raised_(<<"ConnectionError">>)

\* C9: after one or more consecutive disconnect() calls, whatever the state
\* they started from, the connected flag is false and the session is absent;
\* disconnect() can be called in every state.
C9_DisconnectIdempotent ==
    /\ last_op = "disconnect" =>
          /\ connected = FALSE
          /\ session = NoneVal
          /\ disc.run >= 1
    /\ ENABLED Disconnect

\* C9 witness: two consecutive disconnect() calls that started from a
\* connected client.
C9_Witness ==
    /\ last_op = "disconnect"
    /\ disc.run = 2
    /\ disc.from_connected
    /\ disc.from_session

\* connect() was the latest operation and has returned.
ConnectReturned == last_op = "connect" /\ conn.pc = "idle"

\* C36: after any connect() call has returned, the connected flag equals
\* the returned value, whatever the state before the call; after a connect()
\* that returned false the client is not connected, so that request() is
\* rejected.
C36_FlagEqualsResult ==
    ConnectReturned =>
        /\ connected = conn.result
        /\ ~conn.result => NotConnected

\* The rounds of the retry loop whose HTTP call was answered.
AnsweredRounds(trace) == {i \in HttpRounds(trace) : DOMAIN trace[i].resp # {}}

\* C33: _parse_response classifies every response by status and content
\* type: status < 400 with a Content-Type containing "application/json"
\* yields the parsed JSON body; status < 400 otherwise yields {"text": body};
\* status >= 400 ends in a raised error carrying the status and the error
\* body (parsed JSON, or {"error": raw_text} when the body is not JSON), never
\* in a returned value.
C33_ParseClassifies ==
    \A i \in AnsweredRounds(req.trace) :
        LET entry == req.trace[i]
            resp == entry.resp
        IN  IF resp.status >= 400
            THEN /\ ~entry.ok
                 /\ entry.error =
                       <<"ClientResponseError", resp.status,
                         IF IsJson(resp.body) THEN <<"json", resp.body>>
                         ELSE <<"error", resp.body>> >>
            ELSE /\ entry.ok
                 /\ i = Len(req.trace)
                 /\ req.pc = "done"
                 /\ req.outcome =
                       Returned_(IF HasJsonMarker(resp.content_type)
                                 THEN <<"json", resp.body>>
                                 ELSE <<"text", resp.body>>)

NextMcp ==
    \/ ConnectBegin
    \/ \E status \in ProbeStatuses : ConnectProbeResponds(status)
    \/ ConnectProbeRaises
    \/ Disconnect
    \/ \E method \in Methods : RequestRejected(method)
    \/ \E method \in Methods : RequestBegin(method)
    \/ \E method \in Methods : RequestUnsupported(method)
    \/ \E resp \in HttpResponses : HttpResponds(resp)
    \/ \E error \in TransportErrors : HttpFails(error)

(***************************************************************************)
(* Service adapters (JiraAgent, ConfluenceAgent): values                   *)
(***************************************************************************)
\* self.cache_ttl_seconds
cache_ttl_seconds == 300

\* timedelta(minutes=5) of _cleanup_cache
cleanup_interval_minutes == 5

\* The clock advances in steps of TimeStep seconds up to MaxTime.
TimeStep == 300
MaxTime == 600

\* Number of adapter operations issued in one run of the model.
MaxOps == 3

Ops == 1..MaxOps

\* Strings whose characters matter (names, keys, cache keys) are sequences of
\* characters. An absent optional argument (None) is the empty sequence.
NoneStr == <<>>

\* str(None) inside an f-string
Fmt(x) == IF x = NoneStr THEN <<"N", "o", "n", "e">> ELSE x

LowerChar(c) ==
    CASE c = "A" -> "a" [] c = "B" -> "b" [] c = "C" -> "c" [] c = "D" -> "d"
      [] OTHER -> c

UpperChar(c) ==
    CASE c = "a" -> "A" [] c = "b" -> "B" [] c = "c" -> "C" [] c = "d" -> "D"
      [] OTHER -> c

\* str.lower, str.upper
Lower(str) == [i \in 1..Len(str) |-> LowerChar(str[i])]
Upper_(str) == [i \in 1..Len(str) |-> UpperChar(str[i])]

\* needle in hay
Contains(hay, needle) ==
    \E i \in 0..(Len(hay) - Len(needle)) : SubSeq(hay, i + 1, i + Len(needle)) = needle

\* str.replace(" ", "")
RemoveSpaces(str) == SelectSeq(str, LAMBDA c : c # " ")

\* The project list the backend serves on GET /project.
ProjectList ==
    << [name |-> <<"A", "b", " ", "C">>, key |-> <<"A", "B", "C">>],
       [name |-> <<"A", "b">>,           key |-> <<"A", "B">>] >>

FindProjectByNameOnePass(projects, project_name) ==
    LET hits == {i \in 1..Len(projects) :
                    \/ Lower(projects[i].name) = Lower(project_name)
                    \/ Contains(Lower(projects[i].name), Lower(project_name))
                    \/ Upper_(projects[i].key) = Upper_(RemoveSpaces(project_name))}
    IN  IF hits = {} THEN <<>>
        ELSE projects[CHOOSE i \in hits : \A j \in hits : i <= j].key

\* The key of the first project of the list whose index is in matching, or
\* None.
FirstKey(projects, matching) ==
    IF matching = {} THEN NoneStr
    ELSE projects[CHOOSE i \in matching : \A j \in matching : i <= j].key

\* JiraAgent.find_project_by_name, on the list get_projects returned.
FindProjectByName(projects, project_name) ==
    LET range == 1..Len(projects)
        exact == {i \in range : Lower(projects[i].name) = Lower(project_name)}
        partial == {i \in range : Contains(Lower(projects[i].name), Lower(project_name))}
        transformed_key == Upper_(RemoveSpaces(project_name))
        transformed == {i \in range : Upper_(projects[i].key) = transformed_key}
    IN  IF exact # {} THEN FirstKey(projects, exact)
        ELSE IF partial # {} THEN FirstKey(projects, partial)
        ELSE FirstKey(projects, transformed)

\* Length of the project lists find_project_by_name is called on.
MaxProjects == 2

\* Projects of a Jira site: names that contain one another, keys in either
\* case, a key that equals another project's name.
Projects ==
    { [name |-> <<"A", "b", " ", "C">>, key |-> <<"A", "B", "C">>],
      [name |-> <<"A", "b">>,           key |-> <<"A", "B">>],
      [name |-> <<"D">>,                key |-> <<"b">>],
      [name |-> <<"d">>,                key |-> <<"a", "b">>] }

\* What get_projects hands to find_project_by_name: the projects in any order,
\* or [] (line 56).
ProjectLists ==
    {projects \in UNION {[1..n -> Projects] : n \in 0..MaxProjects} :
        \A i, j \in DOMAIN projects : projects[i] = projects[j] => i = j}

\* The names find_project_by_name is asked for.
ProjectNames ==
    { <<"a", "b">>, <<"A", "B">>, <<"b">>, <<"a", "b", " ", "c">>, <<"a", "b", "c">>,
      <<"a", " ", "b", "c">>, <<"d">>, <<"z", "z">> }

NoFind == [called |-> FALSE, projects |-> <<>>, project_name |-> <<>>, project_key |-> <<>>]

InitFind == found = NoFind

\* A find_project_by_name(project_name) call, from the list get_projects
\* returned to its return value.
FindProjectByNameCall(projects, project_name) ==
    /\ found' = [called |-> TRUE, projects |-> projects, project_name |-> project_name,
                 project_key |-> FindProjectByName(projects, project_name)]
    /\ UNCHANGED <<orchVars, mcpVars, cacheVars, ttlVars, sdVars, regVars, coordVars>>

\* The positions of the list that match in each of the three ways.
ExactMatches ==
    {i \in DOMAIN found.projects :
        Lower(found.projects[i].name) = Lower(found.project_name)}
SubstringMatches ==
    {i \in DOMAIN found.projects :
        Contains(Lower(found.projects[i].name), Lower(found.project_name))}
KeyMatches ==
    {i \in DOMAIN found.projects :
        Upper_(found.projects[i].key) = Upper_(RemoveSpaces(found.project_name))}

\* The result is the key of the first position of a non-empty set.
IsFirstOf(matches) ==
    \E i \in matches :
        /\ \A j \in matches : i <= j
        /\ found.project_key = found.projects[i].key

\* C30: find_project_by_name goes by three passes in strict priority over the
\* whole list: the first exact case-insensitive name match wherever it
\* stands; failing any, the first project whose name contains the name;
\* failing any, the first project whose key equals the name with spaces
\* removed and upper-cased; failing all three, no key.
C30_ThreePasses ==
    found.called =>
        /\ ExactMatches # {} => IsFirstOf(ExactMatches)
        /\ (ExactMatches = {} /\ SubstringMatches # {}) => IsFirstOf(SubstringMatches)
        /\ (ExactMatches = {} /\ SubstringMatches = {} /\ KeyMatches # {}) =>
              IsFirstOf(KeyMatches)
        /\ (ExactMatches = {} /\ SubstringMatches = {} /\ KeyMatches = {}) =>
              found.project_key = NoneStr

\* C30 witness: the exact match stands second, behind a project that matches
\* by substring only, and the call returned the key of the second.
C30_Witness ==
    /\ found.called
    /\ Len(found.projects) = 2
    /\ ExactMatches = {2}
    /\ 1 \in SubstringMatches
    /\ found.project_key = found.projects[2].key
    /\ found.project_key # found.projects[1].key

NextFind ==
    \E projects \in ProjectLists, project_name \in ProjectNames :
        FindProjectByNameCall(projects, project_name)

\* "projects:list"
ProjectsKey == <<"p", "r", "o", "j", "e", "c", "t", "s", ":", "l", "i", "s", "t">>

\* f"issues:{project_key}:{status}:{assignee}:{issue_type}:{max_results}"
IssuesKey(project_key, status, assignee, issue_type, max_results) ==
    <<"i", "s", "s", "u", "e", "s">> \o <<":">> \o Fmt(project_key) \o <<":">>
        \o Fmt(status) \o <<":">> \o Fmt(assignee) \o <<":">> \o Fmt(issue_type)
        \o <<":">> \o max_results

\* f"page:{page_id}:{title}:{space_key}"
PageKey(page_id, title, space_key) ==
    <<"p", "a", "g", "e">> \o <<":">> \o Fmt(page_id) \o <<":">> \o Fmt(title)
        \o <<":">> \o Fmt(space_key)

\* The arguments get_issues is called with (assignee, issue_type absent,
\* max_results 50).
GetIssuesArgs ==
    { [project |-> NoneStr,      status |-> NoneStr],
      [project |-> <<"a", "b">>, status |-> NoneStr],
      [project |-> <<"z", "z">>, status |-> NoneStr] }

\* The arguments create_issue and update_issue are called with.
CreateIssueArgs == { [project |-> <<"a", "b">>], [project |-> <<"z", "z">>] }
UpdateIssueArgs == { [issue_key |-> <<"A", "B", "-", "1">>] }

\* fields.project.key of the issue GET /issue/{key} answers with ("" when the
\* answer carries none).
IssueProjects == { <<"A", "B">>, <<>> }

\* The arguments create_page and update_page are called with.
CreatePageArgs == { [title |-> <<"D">>, space_key |-> <<"C", "D">>] }
UpdatePageArgs == { [page_id |-> <<"7">>] }

\* The arguments get_page is called with.
GetPageArgs ==
    { [page_id |-> <<"7">>, title |-> NoneStr, space_key |-> NoneStr],
      [page_id |-> NoneStr, title |-> <<"D">>, space_key |-> <<"C", "D">>] }

(***************************************************************************)
(* Service adapters: the TTL cache                                         *)
(***************************************************************************)
ExpiredInMinutes(ts, t) == (t - ts) > cache_ttl_seconds * 60

\* (datetime.now() - entry["ts"]) > timedelta(seconds=self.cache_ttl_seconds)
Expired(ts, t) == (t - ts) > cache_ttl_seconds

CleanupNotDueUpTo(lc, t) == (t - lc) <= cleanup_interval_minutes * 60

\* (datetime.now() - self._last_cleanup) < timedelta(minutes=5)
CleanupNotDue(lc, t) == (t - lc) < cleanup_interval_minutes * 60

\* A sweep that drops every entry once it is due.
CleanupCacheAll(c, lc, t) ==
    IF CleanupNotDue(lc, t)
    THEN [cache |-> c, last_cleanup |-> lc]
    ELSE [cache |-> <<>>, last_cleanup |-> t]

\* _cleanup_cache: the cache and _last_cleanup it leaves.
CleanupCache(c, lc, t) ==
    IF CleanupNotDue(lc, t)
    THEN [cache |-> c, last_cleanup |-> lc]
    ELSE [cache |-> [k \in {x \in DOMAIN c : ~Expired(c[x].ts, t)} |-> c[k]],
          last_cleanup |-> t]

\* _get_cache: the state it leaves and whether it found a live entry.
GetCache(c, lc, t, key) ==
    LET swept == CleanupCache(c, lc, t)
    IN  IF key \notin DOMAIN swept.cache
        THEN [cache |-> swept.cache, last_cleanup |-> swept.last_cleanup, hit |-> FALSE]
        ELSE IF Expired(swept.cache[key].ts, t)
        THEN [cache |-> [k \in DOMAIN swept.cache \ {key} |-> swept.cache[k]],
              last_cleanup |-> swept.last_cleanup, hit |-> FALSE]
        ELSE [cache |-> swept.cache, last_cleanup |-> swept.last_cleanup, hit |-> TRUE]

\* _set_cache
SetCache(c, t, key, value) ==
    [k \in DOMAIN c \cup {key} |-> IF k = key THEN [val |-> value, ts |-> t] ELSE c[k]]

\* _invalidate_project_cache
InvalidateProjectCache(c, project) ==
    LET project_key == Upper_(RemoveSpaces(project))
        to_delete == {k \in DOMAIN c : Contains(k, <<":">> \o project_key \o <<":">>)}
    IN  [k \in DOMAIN c \ to_delete |-> c[k]]

(***************************************************************************)
(* Service adapters: state machine                                         *)
(***************************************************************************)
IdleOp ==
    [kind |-> "none", pc |-> "idle", args |-> <<>>, project_key |-> NoneStr,
     key |-> <<>>, looked_up |-> FALSE, t_start |-> 0, reads |-> 0, proj_reads |-> 0,
     stored |-> FALSE, t_end |-> 0, outcome |-> "none", result |-> <<>>,
     alone |-> FALSE, applied |-> FALSE, invalidated |-> FALSE, seen |-> 0]

\* What is kept of an operation whose details no longer matter.
DoneOp == [IdleOp EXCEPT !.pc = "done"]

InitCache ==
    /\ agent_kind \in {"jira", "confluence"}
    /\ now = 0
    /\ cache = <<>>
    /\ last_cleanup = 0
    /\ backend = 0
    /\ ops = [o \in Ops |-> IdleOp]

\* Operations are numbered in the order they are started.
CanStartOp(o) ==
    /\ ops[o].pc = "idle"
    /\ IF o = 1 THEN TRUE ELSE ops[o - 1].pc # "idle"

InFlight(o) == ops[o].pc \notin {"idle", "done"}

\* A new operation: it runs alone if no other operation is in flight when it
\* starts and none starts before it ends.
NewOp(kind, args) ==
    [IdleOp EXCEPT !.kind = kind, !.args = args, !.t_start = now,
                   !.alone = \A o \in Ops : ~InFlight(o)]

\* The operations once operation o has started as op. The details of a
\* finished operation are kept until the second operation after it starts.
Started(o, op) ==
    [x \in Ops |-> IF x = o THEN op
                  ELSE IF InFlight(x) THEN [ops[x] EXCEPT !.alone = FALSE]
                  ELSE IF x = o - 2 THEN DoneOp
                  ELSE ops[x]]

\* Time passes.
Tick ==
    /\ now + TimeStep <= MaxTime
    /\ now' = now + TimeStep
    /\ UNCHANGED <<agent_kind, cache, last_cleanup, backend, ops>>
    /\ UNCHANGED nonCacheVars

\* The operation returns or raises. Its details are kept if it ran alone.
Finish(op, outcome, result) ==
    IF op.alone
    THEN [op EXCEPT !.pc = "done", !.outcome = outcome, !.result = result,
                    !.t_end = now]
    ELSE DoneOp

\* get_issues from the cache lookup on (lines 97-115): a hit returns the
\* cached listing, a miss issues the /search read.
LookupIssues(op, c, lc, project_key) ==
    LET key == IssuesKey(project_key, op.args.status, NoneStr, NoneStr, <<"5", "0">>)
        got == GetCache(c, lc, now, key)
        op1 == [op EXCEPT !.project_key = project_key, !.key = key,
                          !.looked_up = TRUE]
    IN  [cache |-> got.cache, last_cleanup |-> got.last_cleanup,
         op |-> IF got.hit
                THEN Finish(op1, "return", <<"issues", c[key].val>>)
                ELSE [op1 EXCEPT !.pc = "await_search", !.reads = 1]]

AfterProjectsUnchecked(op, c, lc, projects) ==
    LookupIssues(op, c, lc, FindProjectByName(projects, op.args.project))

\* get_issues once find_project_by_name has the project list (lines 92-95):
\* an unresolvable name returns [] without a lookup.
AfterProjects(op, c, lc, projects) ==
    LET project_key == FindProjectByName(projects, op.args.project)
    IN  IF project_key = NoneStr
        THEN [cache |-> c, last_cleanup |-> lc, op |-> Finish(op, "return", <<"issues">>)]
        ELSE LookupIssues(op, c, lc, project_key)

\* create_issue once find_project_by_name has the project list (lines
\* 158-180): an unresolvable name calls get_projects again for the message and
\* raises ValueError; a resolved one issues the POST.
AfterProjectsCreate(op, c, lc, projects) ==
    LET project_key == FindProjectByName(projects, op.args.project)
        got == GetCache(c, lc, now, ProjectsKey)
    IN  IF project_key # NoneStr
        THEN [cache |-> c, last_cleanup |-> lc,
              op |-> [op EXCEPT !.pc = "await_write", !.project_key = project_key]]
        ELSE [cache |-> got.cache, last_cleanup |-> got.last_cleanup,
              op |-> IF got.hit
                     THEN Finish(op, "raise", <<"ValueError">>)
                     ELSE [op EXCEPT !.pc = "await_projects_msg",
                                     !.proj_reads = op.proj_reads + 1]]

\* The caller of find_project_by_name goes on with the project list.
WithProjects(op, c, lc, projects) ==
    IF op.kind = "get_issues"
    THEN AfterProjects(op, c, lc, projects)
    ELSE AfterProjectsCreate(op, c, lc, projects)

\* get_issues(project, status) up to its first suspension point or return.
StartGetIssues(o, args) ==
    LET op == NewOp("get_issues", args)
        got == GetCache(cache, last_cleanup, now, ProjectsKey)
        next == IF args.project = NoneStr
                THEN LookupIssues(op, cache, last_cleanup, NoneStr)
                ELSE IF got.hit
                THEN AfterProjects(op, got.cache, got.last_cleanup, cache[ProjectsKey].val)
                ELSE [cache |-> got.cache, last_cleanup |-> got.last_cleanup,
                      op |-> [op EXCEPT !.pc = "await_projects", !.proj_reads = 1]]
    IN  /\ agent_kind = "jira"
        /\ CanStartOp(o)
        /\ cache' = next.cache
        /\ last_cleanup' = next.last_cleanup
        /\ ops' = Started(o, next.op)
        /\ UNCHANGED <<agent_kind, now, backend>>
        /\ UNCHANGED nonCacheVars

\* GET /project answers with a list (the project list, or an empty one):
\* get_projects lines 50-53, then get_issues goes on.
ProjectsRespond(o, projects) ==
    LET c == SetCache(cache, now, ProjectsKey, projects)
        next == WithProjects(ops[o], c, last_cleanup, projects)
    IN  /\ ops[o].pc = "await_projects"
        /\ cache' = next.cache
        /\ last_cleanup' = next.last_cleanup
        /\ ops' = [ops EXCEPT ![o] = next.op]
        /\ UNCHANGED <<agent_kind, now, backend>>
        /\ UNCHANGED nonCacheVars

\* GET /project raises: get_projects lines 54-56 return [] and store nothing.
ProjectsRaise(o) ==
    LET next == WithProjects(ops[o], cache, last_cleanup, <<>>)
    IN  /\ ops[o].pc = "await_projects"
        /\ cache' = next.cache
        /\ last_cleanup' = next.last_cleanup
        /\ ops' = [ops EXCEPT ![o] = next.op]
        /\ UNCHANGED <<agent_kind, now, backend>>
        /\ UNCHANGED nonCacheVars

\* GET /search answers: lines 122-145, the listing is stored and returned.
SearchResponds(o) ==
    /\ ops[o].pc = "await_search"
    /\ cache' = SetCache(cache, now, ops[o].key, backend)
    /\ ops' = [ops EXCEPT ![o] =
                  Finish([ops[o] EXCEPT !.stored = TRUE], "return", <<"issues", backend>>)]
    /\ UNCHANGED <<agent_kind, now, last_cleanup, backend>>
    /\ UNCHANGED nonCacheVars

\* The backend evaluates the search of GET /search: the listing it sends is
\* the one of that moment; get_issues stays suspended in the request (line
\* 115) until the answer has arrived.
SearchServed(o) ==
    /\ ops[o].pc = "await_search"
    /\ ops' = [ops EXCEPT ![o].pc = "await_answer", ![o].seen = backend]
    /\ UNCHANGED <<agent_kind, now, cache, last_cleanup, backend>>
    /\ UNCHANGED nonCacheVars

\* The answer to GET /search arrives: lines 122-145, the listing that was
\* sent is stored and returned.
SearchAnswered(o) ==
    /\ ops[o].pc = "await_answer"
    /\ cache' = SetCache(cache, now, ops[o].key, ops[o].seen)
    /\ ops' = [ops EXCEPT ![o] =
                  Finish([ops[o] EXCEPT !.stored = TRUE], "return",
                         <<"issues", ops[o].seen>>)]
    /\ UNCHANGED <<agent_kind, now, last_cleanup, backend>>
    /\ UNCHANGED nonCacheVars

\* GET /search raises: the exception leaves get_issues, nothing is stored.
SearchRaises(o) ==
    /\ ops[o].pc = "await_search"
    /\ ops' = [ops EXCEPT ![o] = Finish(ops[o], "raise", <<"TransportError">>)]
    /\ UNCHANGED <<agent_kind, now, cache, last_cleanup, backend>>
    /\ UNCHANGED nonCacheVars

\* create_issue(project, ...) up to its first suspension point or raise.
StartCreateIssue(o, args) ==
    LET op == NewOp("create_issue", args)
        got == GetCache(cache, last_cleanup, now, ProjectsKey)
        next == IF got.hit
                THEN AfterProjectsCreate(op, got.cache, got.last_cleanup,
                                         cache[ProjectsKey].val)
                ELSE [cache |-> got.cache, last_cleanup |-> got.last_cleanup,
                      op |-> [op EXCEPT !.pc = "await_projects", !.proj_reads = 1]]
    IN  /\ agent_kind = "jira"
        /\ CanStartOp(o)
        /\ cache' = next.cache
        /\ last_cleanup' = next.last_cleanup
        /\ ops' = Started(o, next.op)
        /\ UNCHANGED <<agent_kind, now, backend>>
        /\ UNCHANGED nonCacheVars

\* The GET /project made for the error message answers with a list, which
\* get_projects stores; create_issue raises ValueError (line 160).
ProjectsMsgRespond(o, projects) ==
    /\ ops[o].pc = "await_projects_msg"
    /\ cache' = SetCache(cache, now, ProjectsKey, projects)
    /\ ops' = [ops EXCEPT ![o] = Finish(ops[o], "raise", <<"ValueError">>)]
    /\ UNCHANGED <<agent_kind, now, last_cleanup, backend>>
    /\ UNCHANGED nonCacheVars

\* The GET /project made for the error message raises; get_projects returns
\* [] and create_issue raises ValueError.
ProjectsMsgRaise(o) ==
    /\ ops[o].pc = "await_projects_msg"
    /\ ops' = [ops EXCEPT ![o] = Finish(ops[o], "raise", <<"ValueError">>)]
    /\ UNCHANGED <<agent_kind, now, cache, last_cleanup, backend>>
    /\ UNCHANGED nonCacheVars

\* update_issue(issue_key, updates) up to the PUT (lines 222-228).
StartUpdateIssue(o, args) ==
    /\ agent_kind = "jira"
    /\ CanStartOp(o)
    /\ ops' = Started(o, [NewOp("update_issue", args) EXCEPT !.pc = "await_write"])
    /\ UNCHANGED <<agent_kind, now, cache, last_cleanup, backend>>
    /\ UNCHANGED nonCacheVars

\* create_page(title, content, space_key) up to the POST (lines 85-111).
StartCreatePage(o, args) ==
    /\ agent_kind = "confluence"
    /\ CanStartOp(o)
    /\ ops' = Started(o, [NewOp("create_page", args) EXCEPT !.pc = "await_write"])
    /\ UNCHANGED <<agent_kind, now, cache, last_cleanup, backend>>
    /\ UNCHANGED nonCacheVars

\* update_page(page_id, updates) up to the read of the current version
\* (lines 141-146).
StartUpdatePage(o, args) ==
    /\ agent_kind = "confluence"
    /\ CanStartOp(o)
    /\ ops' = Started(o, [NewOp("update_page", args) EXCEPT !.pc = "await_version"])
    /\ UNCHANGED <<agent_kind, now, cache, last_cleanup, backend>>
    /\ UNCHANGED nonCacheVars

\* The read of the current version answers: update_page issues the PUT.
VersionResponds(o) ==
    /\ ops[o].pc = "await_version"
    /\ ops' = [ops EXCEPT ![o].pc = "await_write"]
    /\ UNCHANGED <<agent_kind, now, cache, last_cleanup, backend>>
    /\ UNCHANGED nonCacheVars

\* The read of the current version raises: the exception leaves update_page.
VersionRaises(o) ==
    /\ ops[o].pc = "await_version"
    /\ ops' = [ops EXCEPT ![o] = Finish(ops[o], "raise", <<"TransportError">>)]
    /\ UNCHANGED <<agent_kind, now, cache, last_cleanup, backend>>
    /\ UNCHANGED nonCacheVars

\* The POST or PUT answers: the backend has applied the write. The Jira
\* operations go on to read the issue back; the Confluence operations build
\* the page and return, leaving the cache alone.
WriteResponds(o) ==
    /\ ops[o].pc = "await_write"
    /\ backend' = backend + 1
    /\ ops' = [ops EXCEPT ![o] =
                  IF ops[o].kind \in {"create_issue", "update_issue"}
                  THEN [ops[o] EXCEPT !.pc = "await_detail", !.applied = TRUE]
                  ELSE Finish([ops[o] EXCEPT !.applied = TRUE], "return",
                              <<"page", backend + 1>>)]
    /\ UNCHANGED <<agent_kind, now, cache, last_cleanup>>
    /\ UNCHANGED nonCacheVars

\* The POST or PUT raises: the exception leaves the operation.
WriteRaises(o) ==
    /\ ops[o].pc = "await_write"
    /\ ops' = [ops EXCEPT ![o] = Finish(ops[o], "raise", <<"TransportError">>)]
    /\ UNCHANGED <<agent_kind, now, cache, last_cleanup, backend>>
    /\ UNCHANGED nonCacheVars

\* GET /issue/{key} answers with an issue of the given project: create_issue
\* invalidates the project it resolved (lines 218-219), update_issue the
\* project of the issue if it has one (lines 262-263).
DetailResponds(o, project) ==
    LET target == IF ops[o].kind = "create_issue" THEN ops[o].project_key ELSE project
    IN  /\ ops[o].pc = "await_detail"
        /\ cache' = IF target # <<>> THEN InvalidateProjectCache(cache, target) ELSE cache
        /\ ops' = [ops EXCEPT ![o] =
                      Finish([ops[o] EXCEPT !.invalidated = (target # <<>>),
                                            !.project_key = target],
                             "return", <<"issue", backend>>)]
        /\ UNCHANGED <<agent_kind, now, last_cleanup, backend>>
        /\ UNCHANGED nonCacheVars

\* GET /issue/{key} raises: the exception leaves the operation before the
\* invalidation.
DetailRaises(o) ==
    /\ ops[o].pc = "await_detail"
    /\ ops' = [ops EXCEPT ![o] = Finish(ops[o], "raise", <<"TransportError">>)]
    /\ UNCHANGED <<agent_kind, now, cache, last_cleanup, backend>>
    /\ UNCHANGED nonCacheVars

\* get_page(page_id, title, space_key) up to the Transport read or a cache
\* hit: lines 47-62.
StartGetPage(o, args) ==
    LET key == PageKey(args.page_id, args.title, args.space_key)
        got == GetCache(cache, last_cleanup, now, key)
        op == [NewOp("get_page", args) EXCEPT !.key = key, !.looked_up = TRUE]
    IN  /\ agent_kind = "confluence"
        /\ CanStartOp(o)
        /\ cache' = got.cache
        /\ last_cleanup' = got.last_cleanup
        /\ ops' = Started(o, IF got.hit
                              THEN Finish(op, "return", <<"page", cache[key].val>>)
                              ELSE [op EXCEPT !.pc = "await_page", !.reads = 1])
        /\ UNCHANGED <<agent_kind, now, backend>>
        /\ UNCHANGED nonCacheVars

\* The Transport read answers with a page: lines 66-83, stored and returned.
PageFound(o) ==
    /\ ops[o].pc = "await_page"
    /\ cache' = SetCache(cache, now, ops[o].key, backend)
    /\ ops' = [ops EXCEPT ![o] =
                  Finish([ops[o] EXCEPT !.stored = TRUE], "return", <<"page", backend>>)]
    /\ UNCHANGED <<agent_kind, now, last_cleanup, backend>>
    /\ UNCHANGED nonCacheVars

\* The Transport read answers with no page: lines 64-65 return None and
\* store nothing.
PageAbsent(o) ==
    /\ ops[o].pc = "await_page"
    /\ ops' = [ops EXCEPT ![o] = Finish(ops[o], "return", <<"absent">>)]
    /\ UNCHANGED <<agent_kind, now, cache, last_cleanup, backend>>
    /\ UNCHANGED nonCacheVars

\* The Transport read raises: the exception leaves get_page.
PageRaises(o) ==
    /\ ops[o].pc = "await_page"
    /\ ops' = [ops EXCEPT ![o] = Finish(ops[o], "raise", <<"TransportError">>)]
    /\ UNCHANGED <<agent_kind, now, cache, last_cleanup, backend>>
    /\ UNCHANGED nonCacheVars

(***************************************************************************)
(* Service adapters: claims                                                *)
(***************************************************************************)
\* Operation j is the same read as operation i, called again: both ran alone,
\* one right after the other, with identical key fields, and both returned.
CalledTwice(i, j) ==
    /\ j = i + 1
    /\ ops[i].pc = "done" /\ ops[j].pc = "done"
    /\ ops[i].alone /\ ops[j].alone
    /\ ops[i].kind \in {"get_issues", "get_page"}
    /\ ops[j].kind = ops[i].kind
    /\ ops[j].args = ops[i].args
    /\ ops[i].outcome = "return" /\ ops[j].outcome = "return"

\* The first call found nothing cached and read the keyed resource.
FirstReads(i) == ops[i].looked_up /\ ops[i].reads = 1

\* Both calls fall within the TTL of the first result.
BothWithinTtl(i, j) == ops[j].t_end - ops[i].t_end <= cache_ttl_seconds

\* The second call occurs after the TTL of the first result has been exceeded.
SecondAfterTtl(i, j) == ops[j].t_start - ops[i].t_end > cache_ttl_seconds

\* C10: a read (get_issues, get_page) called twice with identical key fields
\* and no operation in between issues exactly one Transport read of the keyed
\* resource in total if both calls fall within the TTL of the first result,
\* and two if the second call occurs after the TTL has been exceeded (and
\* looks the same key up).
C10_CacheRoundTrip ==
    \A i \in Ops, j \in Ops :
        (CalledTwice(i, j) /\ FirstReads(i)) =>
            /\ BothWithinTtl(i, j) => ops[i].reads + ops[j].reads = 1
            /\ (SecondAfterTtl(i, j) /\ ops[j].looked_up /\ ops[j].key = ops[i].key) =>
                  ops[i].reads + ops[j].reads = 2

\* Operation j is a read called right after the write i has completed: both
\* ran alone, one right after the other, and both returned.
ReadAfterWrite(i, j) ==
    /\ j = i + 1
    /\ ops[i].pc = "done" /\ ops[j].pc = "done"
    /\ ops[i].alone /\ ops[j].alone
    /\ ops[i].kind \in {"create_issue", "update_issue", "create_page", "update_page"}
    /\ ops[j].kind \in {"get_issues", "get_page"}
    /\ ops[i].outcome = "return" /\ ops[j].outcome = "return"

\* The read j is on the resource family the write i was on: the project of
\* the issue, the page that was updated, the space the page was created in.
SameFamily(i, j) ==
    CASE ops[i].kind \in {"create_issue", "update_issue"} ->
            /\ ops[i].project_key # NoneStr
            /\ ops[j].looked_up
            /\ ops[j].project_key = ops[i].project_key
      [] ops[i].kind = "update_page" -> ops[j].args.page_id = ops[i].args.page_id
      [] ops[i].kind = "create_page" -> ops[j].args.space_key = ops[i].args.space_key
      [] OTHER -> FALSE

\* The read was served from the cache. Nothing ran between the write and the
\* read and a write stores no listing or page, so the entry it was served
\* from was stored before the write.
ServedFromCache(j) == ops[j].looked_up /\ ops[j].reads = 0

\* C11: after a create or update on a resource family has completed, a
\* subsequent read on that family never returns a value that was stored in the
\* adapter cache before the write.
C11_NoStaleReadAfterWrite ==
    \A i \in Ops, j \in Ops :
        (ReadAfterWrite(i, j) /\ SameFamily(i, j)) => ~ServedFromCache(j)

\* The cache keys of issues listings.
IsIssuesKey(k) == StartsWith(k, <<"i", "s", "s", "u", "e", "s", ":">>)

\* Operation o was called with a project name.
Named(o) == ops[o].kind \in {"get_issues", "create_issue"} /\ ops[o].args.project # NoneStr

\* C31: an unresolvable project name is no error for a read and an error for
\* a write. A get_issues whose name resolved to no key never reaches the
\* search request, and returns the empty list having looked nothing up and
\* stored nothing; an issues listing enters the cache only through the answer
\* to a search request. A create_issue whose name resolved to no key never
\* reaches the POST and raises ValueError; the backend applies a write only
\* for an operation that has reached its POST or PUT.
C31_UnresolvedName ==
    /\ [](\A o \in Ops :
            /\ (Named(o) /\ ops[o].pc \in {"await_search", "await_write", "await_detail"}) =>
                  ops[o].project_key # NoneStr
            /\ (Named(o) /\ ops[o].pc = "done" /\ ops[o].alone
                    /\ ops[o].project_key = NoneStr) =>
                  IF ops[o].kind = "get_issues"
                  THEN /\ ops[o].outcome = "return" /\ ops[o].result = <<"issues">>
                       /\ ops[o].reads = 0 /\ ~ops[o].looked_up /\ ~ops[o].stored
                  ELSE /\ ops[o].outcome = "raise" /\ ops[o].result = <<"ValueError">>
                       /\ ~ops[o].applied /\ ~ops[o].invalidated)
    /\ [][/\ \A k \in DOMAIN cache' :
               (IsIssuesKey(k) /\ (k \notin DOMAIN cache \/ cache'[k] # cache[k])) =>
                   \E o \in Ops : ops[o].pc = "await_search" /\ ops[o].key = k
          /\ backend' # backend =>
               \E o \in Ops : ops[o].pc = "await_write" /\ ops'[o].pc # "await_write"
         ]_vars

\* C31 witness: a get_issues for a name no project matches has returned the
\* empty list, then a create_issue for that name has raised, with no search
\* request, no POST and no issues listing in the cache.
C31_Witness ==
    \E i, j \in Ops :
        /\ j = i + 1
        /\ ops[i].pc = "done" /\ ops[i].alone /\ ops[i].kind = "get_issues"
        /\ ops[i].args.project = <<"z", "z">> /\ ops[i].result = <<"issues">>
        /\ ops[i].proj_reads = 1 /\ ops[i].reads = 0
        /\ ops[j].pc = "done" /\ ops[j].alone /\ ops[j].kind = "create_issue"
        /\ ops[j].args.project = <<"z", "z">> /\ ops[j].outcome = "raise"
        /\ backend = 0
        /\ \A k \in DOMAIN cache : ~IsIssuesKey(k)

\* The project the overlapping operations are on, as callers name it, and
\* its key.
OverlapProject == <<"a", "b">>
OverlapKey == <<"A", "B">>

\* The issues listings of the project in the cache.
ListingsOf(project_key) ==
    {k \in DOMAIN cache : IsIssuesKey(k) /\ Contains(k, <<":">> \o project_key \o <<":">>)}

\* C34: with a get_issues for project P and a create_issue or update_issue
\* for P overlapping at their suspension points, once both have completed
\* the cache holds no issues listing for P that was read from the backend
\* before the write was applied. Every write of the run is on P and the
\* backend counts the writes applied, so once no operation is in flight a
\* listing of P in the cache is the backend's current one.
C34_NoStaleRepopulation ==
    (\A o \in Ops : ~InFlight(o)) =>
        \A k \in ListingsOf(OverlapKey) : cache[k].val = backend

\* Reads and writes on one project whose requests all get answered, in any
\* interleaving of their suspension points.
NextOverlap ==
    \/ \E o \in Ops : StartGetIssues(o, [project |-> OverlapProject, status |-> NoneStr])
    \/ \E o \in Ops : ProjectsRespond(o, ProjectList)
    \/ \E o \in Ops : SearchServed(o)
    \/ \E o \in Ops : SearchAnswered(o)
    \/ \E o \in Ops : StartCreateIssue(o, [project |-> OverlapProject])
    \/ \E o \in Ops, args \in UpdateIssueArgs : StartUpdateIssue(o, args)
    \/ \E o \in Ops : WriteResponds(o)
    \/ \E o \in Ops : DetailResponds(o, OverlapKey)

NextCache ==
    \/ Tick
    \/ \E o \in Ops, args \in GetIssuesArgs : StartGetIssues(o, args)
    \/ \E o \in Ops, projects \in {ProjectList, <<>>} : ProjectsRespond(o, projects)
    \/ \E o \in Ops : ProjectsRaise(o)
    \/ \E o \in Ops : SearchResponds(o)
    \/ \E o \in Ops : SearchRaises(o)
    \/ \E o \in Ops, args \in GetPageArgs : StartGetPage(o, args)
    \/ \E o \in Ops : PageFound(o)
    \/ \E o \in Ops : PageAbsent(o)
    \/ \E o \in Ops : PageRaises(o)
    \/ \E o \in Ops, args \in CreateIssueArgs : StartCreateIssue(o, args)
    \/ \E o \in Ops, projects \in {ProjectList, <<>>} : ProjectsMsgRespond(o, projects)
    \/ \E o \in Ops : ProjectsMsgRaise(o)
    \/ \E o \in Ops, args \in UpdateIssueArgs : StartUpdateIssue(o, args)
    \/ \E o \in Ops, args \in CreatePageArgs : StartCreatePage(o, args)
    \/ \E o \in Ops, args \in UpdatePageArgs : StartUpdatePage(o, args)
    \/ \E o \in Ops : VersionResponds(o)
    \/ \E o \in Ops : VersionRaises(o)
    \/ \E o \in Ops : WriteResponds(o)
    \/ \E o \in Ops : WriteRaises(o)
    \/ \E o \in Ops, project \in IssueProjects : DetailResponds(o, project)
    \/ \E o \in Ops : DetailRaises(o)

(***************************************************************************)
(* Service adapters: the cache methods called directly                     *)
(***************************************************************************)
\* The clock step between direct calls of the cache methods.
TtlStep == 150

\* The keys the cache methods are called with.
TtlKeys ==
    { ProjectsKey,
      IssuesKey(NoneStr, NoneStr, NoneStr, NoneStr, <<"5", "0">>),
      IssuesKey(<<"A", "B">>, NoneStr, NoneStr, NoneStr, <<"5", "0">>) }

NoLookup ==
    [n |-> 0, key |-> <<>>, had |-> FALSE, ts |-> 0, at |-> 0, swept |-> FALSE,
     hit |-> FALSE, val |-> 0, removed |-> FALSE,
     before |-> <<>>, after |-> <<>>, lc |-> 0, lc_after |-> 0]

InitTtl == lookup = NoLookup

\* Time passes between two calls.
TtlTick ==
    /\ now + TtlStep <= MaxTime
    /\ now' = now + TtlStep
    /\ UNCHANGED <<agent_kind, cache, last_cleanup, backend, ops, lookup>>
    /\ UNCHANGED <<orchVars, mcpVars, sdVars, regVars, coordVars, findVars>>

\* self._set_cache(key, value)
CacheSet(key, value) ==
    /\ cache' = SetCache(cache, now, key, value)
    /\ UNCHANGED <<agent_kind, now, last_cleanup, backend, ops, lookup>>
    /\ UNCHANGED <<orchVars, mcpVars, sdVars, regVars, coordVars, findVars>>

\* self._get_cache(key): what it found, what it returned and what it left.
CacheGet(key) ==
    LET got == GetCache(cache, last_cleanup, now, key)
        had == key \in DOMAIN cache
    IN  /\ cache' = got.cache
        /\ last_cleanup' = got.last_cleanup
        /\ lookup' = [n |-> 1, key |-> key, had |-> had,
                      ts |-> IF had THEN cache[key].ts ELSE 0,
                      at |-> now,
                      swept |-> ~CleanupNotDue(last_cleanup, now),
                      hit |-> got.hit,
                      val |-> IF got.hit THEN got.cache[key].val ELSE 0,
                      removed |-> key \notin DOMAIN got.cache,
                      before |-> cache, after |-> got.cache,
                      lc |-> last_cleanup, lc_after |-> got.last_cleanup]
        /\ UNCHANGED <<agent_kind, now, backend, ops>>
        /\ UNCHANGED <<orchVars, mcpVars, sdVars, regVars, coordVars, findVars>>

\* self._invalidate_project_cache(project)
CacheInvalidate(project) ==
    /\ cache' = InvalidateProjectCache(cache, project)
    /\ UNCHANGED <<agent_kind, now, last_cleanup, backend, ops, lookup>>
    /\ UNCHANGED <<orchVars, mcpVars, sdVars, regVars, coordVars, findVars>>

\* C12: _get_cache never returns an entry whose age (now minus insertion
\* time) exceeds cache_ttl_seconds: a lookup that finds such an entry removes
\* it and reports a miss; a lookup that returns a value returns the value of
\* an entry that is there and is no older than the TTL.
C12_NoStaleLookup ==
    lookup.n > 0 =>
        /\ (lookup.had /\ lookup.at - lookup.ts > cache_ttl_seconds) =>
              (~lookup.hit /\ lookup.removed)
        /\ lookup.hit =>
              (lookup.had /\ lookup.at - lookup.ts <= cache_ttl_seconds /\ ~lookup.removed)

\* C12 witness: a lookup found an entry older than the TTL that no sweep had
\* taken (the sweep was not due), removed it and reported a miss.
C12_Witness ==
    /\ lookup.n > 0
    /\ lookup.had
    /\ lookup.at - lookup.ts > cache_ttl_seconds
    /\ ~lookup.swept
    /\ ~lookup.hit
    /\ lookup.removed

\* What the sweep before the recorded lookup did, given whether it was due:
\* a due sweep removes every entry older than the TTL and sets the last-sweep
\* time to now; otherwise no entry but the looked-up one is touched and the
\* last-sweep time stays.
SweepContract(due) ==
    lookup.n > 0 =>
        IF due
        THEN /\ lookup.lc_after = lookup.at
             /\ \A k \in DOMAIN lookup.before :
                   Expired(lookup.before[k].ts, lookup.at) => k \notin DOMAIN lookup.after
        ELSE /\ lookup.lc_after = lookup.lc
             /\ \A k \in DOMAIN lookup.before \ {lookup.key} :
                   k \in DOMAIN lookup.after /\ lookup.after[k] = lookup.before[k]

\* C32 as stated: the sweep before a cache read is due when more than 5
\* minutes have elapsed since the last sweep.
C32_Original == SweepContract(lookup.at - lookup.lc > cleanup_interval_minutes * 60)

\* C32 amended: the sweep before a cache read is due when at least 5 minutes
\* have elapsed since the last sweep; then every entry older than the TTL is
\* removed and the last-sweep time is set to now; otherwise the sweep removes
\* nothing and leaves the last-sweep time unchanged.
C32_Amended == SweepContract(lookup.at - lookup.lc >= cleanup_interval_minutes * 60)

\* C32 witness: a lookup exactly 5 minutes after the last sweep swept an
\* entry older than the TTL that was not the one looked up, and set the
\* last-sweep time.
C32_Witness ==
    /\ lookup.n > 0
    /\ lookup.lc > 0
    /\ lookup.at - lookup.lc = cleanup_interval_minutes * 60
    /\ lookup.lc_after = lookup.at
    /\ \E k \in DOMAIN lookup.before \ {lookup.key} :
          Expired(lookup.before[k].ts, lookup.at) /\ k \notin DOMAIN lookup.after

\* Entry k of cache c is no older than the TTL at time t.
Fresh(c, k, t) == t - c[k].ts <= cache_ttl_seconds

\* C40: a cache entry whose age does not exceed the TTL is never removed by
\* a lookup or by the sweep a lookup starts with; it leaves the cache only by
\* being overwritten by a newer store under the same key or by a project
\* invalidation.
C40_FreshEntriesStay ==
    /\ [](lookup.n > 0 =>
            \A k \in DOMAIN lookup.before :
                Fresh(lookup.before, k, lookup.at) =>
                    /\ k \in DOMAIN lookup.after
                    /\ lookup.after[k] = lookup.before[k])
    /\ [][\A k \in DOMAIN cache :
            Fresh(cache, k, now) =>
                \/ k \in DOMAIN cache' /\ cache'[k] = cache[k]
                \/ /\ k \in DOMAIN cache'
                   /\ cache'[k].ts = now
                   /\ cache' = SetCache(cache, now, k, cache'[k].val)
                \/ /\ k \notin DOMAIN cache'
                   /\ \E project \in {<<"a", " ", "b">>} :
                         cache' = InvalidateProjectCache(cache, project)
      ]_vars

\* C40 witness: a lookup whose sweep was due and removed an expired entry
\* left in place another entry that was stored earlier and is no older than
\* the TTL.
C40_Witness ==
    /\ lookup.n > 0
    /\ lookup.swept
    /\ \E k \in DOMAIN lookup.before :
          /\ lookup.before[k].ts < lookup.at
          /\ Fresh(lookup.before, k, lookup.at)
          /\ k \in DOMAIN lookup.after
          /\ lookup.after[k] = lookup.before[k]
    /\ \E k \in DOMAIN lookup.before : k \notin DOMAIN lookup.after

NextTtl ==
    \/ TtlTick
    \/ \E key \in TtlKeys : CacheSet(key, backend)
    \/ \E key \in TtlKeys : CacheGet(key)
    \/ \E project \in {<<"a", " ", "b">>} : CacheInvalidate(project)

\* The keys the Jira adapter caches under in the invalidation runs: the
\* project list, the cross-project listing, the listings of projects AB and
\* ABC, and the cross-project listing of the issues assigned to a user named
\* AB (get_issues(assignee="AB")).
InvalKeys ==
    { ProjectsKey,
      IssuesKey(NoneStr, NoneStr, NoneStr, NoneStr, <<"5", "0">>),
      IssuesKey(<<"A", "B">>, NoneStr, NoneStr, NoneStr, <<"5", "0">>),
      IssuesKey(<<"A", "B", "C">>, NoneStr, NoneStr, NoneStr, <<"5", "0">>),
      IssuesKey(NoneStr, NoneStr, <<"A", "B">>, NoneStr, <<"5", "0">>) }

\* The project keys create_issue and update_issue invalidate with.
InvalProjects == {<<"A", "B">>, <<"A", "B", "C">>}

\* Key k is an issues listing whose project key is P.
IsListingOf(k, P) == StartsWith(k, <<"i", "s", "s", "u", "e", "s", ":">> \o P \o <<":">>)

\* C39: _invalidate_project_cache for project P removes every cached issues
\* listing whose project key is P and nothing else: the listings of other
\* projects, the cross-project listings and the project list stay in the
\* cache unchanged.
C39_InvalidateFrame ==
    \A P \in InvalProjects :
        LET left == InvalidateProjectCache(cache, P)
        IN  /\ DOMAIN left = {k \in DOMAIN cache : ~IsListingOf(k, P)}
            /\ \A k \in DOMAIN left : left[k] = cache[k]

\* Reads stored under the keys above, invalidations for either project, and
\* time passing.
NextInval ==
    \/ TtlTick
    \/ \E key \in InvalKeys : CacheSet(key, backend)
    \/ \E project \in InvalProjects : CacheInvalidate(project)

(***************************************************************************)
(* Coordinators: values                                                    *)
(***************************************************************************)
\* Longest list of invocations one reasoning call returns.
MaxInvocations == 2

\* GoogleAgentDevelopmentKitCoordinator and ScrumMasterCoordinator
CoordKinds == {"adk", "scrum"}

\* Operation names are strings; the prefix that _invoke_tool tests is kept
\* as a token of its own so that str.startswith is computed.
\* The operations _invoke_tool dispatches on.
JiraTools == {<<"jira_", "get_issues">>, <<"jira_", "create_issue">>,
              <<"jira_", "update_issue">>}
ConfluenceTools == {<<"confluence_", "get_page">>, <<"confluence_", "create_page">>,
                    <<"confluence_", "update_page">>}

\* The actions _invoke_scrum_action dispatches on that call one agent method.
ScrumActions == {<<"start_sprint">>, <<"plan_sprint">>, <<"conduct_standup">>,
                 <<"assign_tasks">>, <<"generate_burndown">>}

\* self.tools: the fixed operation table of a coordinator.
OperationTable(kind) ==
    IF kind = "adk" THEN JiraTools \cup ConfluenceTools
    ELSE ScrumActions \cup {<<"sprint_report">>}

\* The operation names the reasoning call comes back with: some of the table,
\* and names outside it with and without a known prefix.
InvokedNames(kind) ==
    IF kind = "adk"
    THEN {<<"jira_", "get_issues">>, <<"confluence_", "create_page">>,
          <<"jira_", "delete_issue">>, <<"frobnicate">>}
    ELSE {<<"start_sprint">>, <<"conduct_standup">>, <<"frobnicate">>}

\* One tool call of a reasoning result: the name and whether the arguments
\* are a JSON document.
Invocations(kind) ==
    {[name |-> name, json_ok |-> TRUE] : name \in InvokedNames(kind)}
        \cup {[name |-> <<"frobnicate">>, json_ok |-> FALSE]}

InvocationLists(kind) ==
    UNION {[1..n -> Invocations(kind)] : n \in 1..MaxInvocations}

\* What llm_agent.chat gives back: a message with text content and no tool
\* calls, a message with tool calls, or an exception.
TextContents == {<<"h", "i">>, <<>>}
ReasoningReplies(kind) ==
    {[raises |-> FALSE, content |-> content, tool_calls |-> <<>>] :
        content \in TextContents}
      \cup {[raises |-> FALSE, content |-> <<>>, tool_calls |-> tool_calls] :
              tool_calls \in InvocationLists(kind)}
      \cup {[raises |-> TRUE, content |-> <<>>, tool_calls |-> <<>>]}

\* Reasoning results of the Scrum Master coordinator that ask for reports:
\* sprint_report, the two actions it is made of, and an unknown action.
ReportReplies ==
    {[raises |-> FALSE, content |-> <<>>, tool_calls |-> tool_calls] :
        tool_calls \in UNION {[1..n -> {[name |-> name, json_ok |-> TRUE] :
                                          name \in {<<"sprint_report">>, <<"conduct_standup">>,
                                                    <<"generate_burndown">>, <<"frobnicate">>}}] :
                              n \in 1..MaxInvocations}}

\* How an agent operation that is started ends: with a record, with a dict
\* carrying an "error" entry, or with an exception, whose str() is a message
\* or empty (asyncio.TimeoutError()).
OpOutcomes == {"record", "error_dict", "raises", "raises_silent"}
Raising == {"raises", "raises_silent"}

\* Python values handed around as data: a str, None, a dict with its
\* "status" and "error" entries (absent entries empty), an agent's record.
PyStr(text) == [type |-> "str", text |-> text, status |-> <<>>, error |-> <<>>]
PyNone == [type |-> "none", text |-> <<>>, status |-> <<>>, error |-> <<>>]
PyDict(status, error) == [type |-> "dict", text |-> <<>>, status |-> status, error |-> error]
PyRecord(name) == [type |-> "record", text |-> name, status |-> <<>>, error |-> <<>>]

\* str(e) of an exception an agent operation raises
OpErrorText == <<"boom">>

(***************************************************************************)
(* Coordinators: dispatch of one invocation                                *)
(***************************************************************************)
AgentOpRetried(name, outcome) ==
    [raised |-> outcome \in Raising,
     message |-> IF outcome = "raises" THEN OpErrorText ELSE <<>>,
     data |-> IF outcome = "record" THEN PyRecord(name)
              ELSE IF outcome = "error_dict" THEN PyDict(<<>>, <<"No active sprint found">>)
              ELSE PyNone,
     started |-> IF outcome \in Raising THEN <<name, name>> ELSE <<name>>]

\* The awaited agent method: what it hands back, or the exception it raises.
AgentOp(name, outcome) ==
    [raised |-> outcome \in Raising,
     message |-> IF outcome = "raises" THEN OpErrorText ELSE <<>>,
     data |-> IF outcome = "record" THEN PyRecord(name)
              ELSE IF outcome = "error_dict" THEN PyDict(<<>>, <<"No active sprint found">>)
              ELSE PyNone,
     started |-> <<name>>]

InvokeToolUnchecked(co, name, outcome) ==
    LET op == AgentOp(name, outcome)
    IN  IF name \in JiraTools \cup ConfluenceTools
        THEN [data |-> IF op.raised THEN PyDict(<<"error">>, op.message) ELSE op.data,
              started |-> op.started]
        ELSE [data |-> PyDict(<<"error">>, <<"Unknown tool: ">> \o name),
              started |-> <<>>]

\* GoogleAgentDevelopmentKitCoordinator._invoke_tool: the value returned and
\* the agent operations started on the way.
InvokeTool(co, name, outcome) ==
    LET unknown == [data |-> PyDict(<<"error">>, <<"Unknown tool: ">> \o name),
                    started |-> <<>>]
        run == LET op == AgentOp(name, outcome)
               IN  [data |-> IF op.raised THEN PyDict(<<"error">>, op.message)
                             ELSE op.data,
                    started |-> op.started]
    IN  IF StartsWith(name, <<"jira_">>)
        THEN IF ~co.jira_available
             THEN [data |-> PyDict(<<"unavailable">>, <<"Jira MCP server not available">>),
                   started |-> <<>>]
             ELSE IF name \in JiraTools THEN run ELSE unknown
        ELSE IF StartsWith(name, <<"confluence_">>)
        THEN IF ~co.confluence_available
             THEN [data |-> PyDict(<<"unavailable">>, <<"Confluence MCP server not available">>),
                   started |-> <<>>]
             ELSE IF name \in ConfluenceTools THEN run ELSE unknown
        ELSE unknown

\* The dict sprint_report builds (lines 315-320): the two agents' results
\* nested under "sprint_status" and "burndown_metrics", no "status" and no
\* "error" entry of its own.
PyReport(standup_data, burndown_data) ==
    [type |-> "dict",
     text |-> <<"sprint_status">> \o standup_data.error
                \o <<"burndown_metrics">> \o burndown_data.error,
     status |-> <<>>, error |-> <<>>]

\* ScrumMasterCoordinator._invoke_scrum_action: the actions that call one
\* agent method, sprint_report, which calls conduct_standup and then
\* generate_burndown, and the names outside the table. The two calls of
\* sprint_report end alike: both depend on the active sprint.
InvokeScrumAction(name, outcome) ==
    IF name \in ScrumActions
    THEN LET op == AgentOp(name, outcome)
         IN  [data |-> IF op.raised THEN PyDict(<<>>, op.message) ELSE op.data,
              started |-> op.started]
    ELSE IF name = <<"sprint_report">>
    THEN LET standup == AgentOp(<<"conduct_standup">>, outcome)
             burndown == AgentOp(<<"generate_burndown">>, outcome)
         IN  IF standup.raised
             THEN [data |-> PyDict(<<>>, standup.message), started |-> standup.started]
             ELSE IF burndown.raised
             THEN [data |-> PyDict(<<>>, burndown.message),
                   started |-> standup.started \o burndown.started]
             ELSE [data |-> PyReport(standup.data, burndown.data),
                   started |-> standup.started \o burndown.started]
    ELSE [data |-> PyDict(<<>>, <<"Unknown Scrum Master action: ">> \o name),
          started |-> <<>>]

\* One iteration of the loop over tool_calls in chat_execute: the response
\* appended and the agent operations started.
ToolResponse(co, inv, outcome) ==
    IF ~inv.json_ok
    THEN [response |-> AgentResponse(
                          IF co.kind = "adk" THEN inv.name
                          ELSE <<"scrum_master_">> \o inv.name,
                          FALSE, PyNone, <<"Expecting value">>),
          started |-> <<>>]
    ELSE IF co.kind = "adk"
    THEN LET r == InvokeTool(co, inv.name, outcome)
             failed == /\ r.data.type = "dict"
                       /\ r.data.status \in {<<"unavailable">>, <<"error">>}
         IN  [response |-> IF failed
                           THEN AgentResponse(inv.name, FALSE, r.data, r.data.error)
                           ELSE AgentResponse(inv.name, TRUE, r.data, <<>>),
              started |-> r.started]
    ELSE LET r == InvokeScrumAction(inv.name, outcome)
             failed == r.data.type = "dict" /\ r.data.error # <<>>
         IN  [response |-> IF failed
                           THEN AgentResponse(<<"scrum_master_">> \o inv.name, FALSE,
                                              r.data, r.data.error)
                           ELSE AgentResponse(<<"scrum_master_">> \o inv.name, TRUE,
                                              r.data, <<>>),
              started |-> r.started]

TextResponseDefault(kind, content) ==
    AgentResponse(IF kind = "adk" THEN <<"llm">> ELSE <<"scrum_master_advisor">>,
                  TRUE, PyStr(<<>>), <<>>)

\* The response for a message without tool calls.
TextResponse(kind, content) ==
    AgentResponse(IF kind = "adk" THEN <<"llm">> ELSE <<"scrum_master_advisor">>,
                  TRUE, PyStr(content), <<>>)

(***************************************************************************)
(* Coordinators: state machine                                             *)
(***************************************************************************)
NoCoord ==
    [kind |-> "none", llm_agent |-> FALSE, jira_available |-> FALSE,
     confluence_available |-> FALSE, init_result |-> "none"]

IdleChat ==
    [pc |-> "idle", reply |-> "none", content |-> <<>>, tool_calls |-> <<>>,
     pos |-> 0, results |-> <<>>, started |-> <<>>, ends |-> <<>>,
     reasoning_calls |-> 0, outcome |-> "none"]

InitCoord ==
    /\ coord = NoCoord
    /\ chat = IdleChat

\* __init__ of either coordinator: no llm_agent and no availability flags yet.
CoordConstruct(kind) ==
    /\ coord.kind = "none"
    /\ coord' = [NoCoord EXCEPT !.kind = kind]
    /\ UNCHANGED chat
    /\ UNCHANGED nonCoordVars

\* initialize(): the ADK coordinator always builds its llm_agent and keeps
\* the two agents' results; the Scrum Master coordinator builds it only when
\* its agent initialized.
CoordInitialize(jira_ok, confluence_ok, scrum_master_ok) ==
    /\ coord.kind # "none"
    /\ chat.pc # "tools"
    /\ coord' = IF coord.kind = "adk"
                THEN [coord EXCEPT !.llm_agent = TRUE,
                                   !.jira_available = jira_ok,
                                   !.confluence_available = confluence_ok,
                                   !.init_result = "true"]
                ELSE [coord EXCEPT !.llm_agent = coord.llm_agent \/ scrum_master_ok,
                                   !.init_result = IF scrum_master_ok THEN "true"
                                                   ELSE "false"]
    /\ UNCHANGED chat
    /\ UNCHANGED nonCoordVars

\* The return of chat_execute with a list of responses.
ChatReturned(reply, content, tool_calls, results, started, ends) ==
    [pc |-> "done", reply |-> reply, content |-> content, tool_calls |-> tool_calls,
     pos |-> 0, results |-> results, started |-> started, ends |-> ends,
     reasoning_calls |-> IF reply = "no_llm" THEN 0 ELSE 1, outcome |-> "return"]

\* chat_execute up to the first invocation: the reasoning call, then the
\* text response, or the start of the loop over the tool calls. An exception
\* (no llm_agent yet, a failing reasoning call) leaves the ADK coordinator's
\* chat_execute and is turned into one error response by the Scrum Master's.
ChatExecute(reply) ==
    LET failure == IF ~coord.llm_agent THEN <<"object has no attribute 'llm_agent'">> ELSE <<"completion failed">>
        cause == IF ~coord.llm_agent THEN "no_llm" ELSE "raised"
    IN  /\ coord.kind # "none"
        /\ chat.pc # "tools"
        /\ \/ reply \in ReasoningReplies(coord.kind)
           \/ coord.kind = "scrum" /\ reply \in ReportReplies
        /\ chat' =
             IF ~coord.llm_agent \/ reply.raises
             THEN IF coord.kind = "adk"
                  THEN [IdleChat EXCEPT !.pc = "done", !.reply = cause,
                                        !.reasoning_calls =
                                            IF coord.llm_agent THEN 1 ELSE 0,
                                        !.outcome = "raise"]
                  ELSE ChatReturned(cause, <<>>, <<>>,
                                <<AgentResponse(<<"scrum_master_error">>, FALSE,
                                                PyNone, failure)>>, <<>>, <<>>)
             ELSE IF reply.tool_calls = <<>>
             THEN ChatReturned("text", reply.content, <<>>,
                           <<TextResponse(coord.kind, reply.content)>>, <<>>, <<>>)
             ELSE [IdleChat EXCEPT !.pc = "tools", !.reply = "tools",
                                   !.tool_calls = reply.tool_calls, !.pos = 1,
                                   !.reasoning_calls = 1]
        /\ UNCHANGED coord
        /\ UNCHANGED nonCoordVars

\* The next invocation of the list is dispatched and its response appended;
\* after the last one chat_execute returns the list. How the agent operation
\* of each position ended is kept beside the responses.
InvokeNext(outcome) ==
    LET r == ToolResponse(coord, chat.tool_calls[chat.pos], outcome)
        results == Append(chat.results, r.response)
        started == chat.started \o r.started
        ends == Append(chat.ends, IF r.started = <<>> THEN "not_started" ELSE outcome)
    IN  /\ chat.pc = "tools"
        /\ outcome \in OpOutcomes
        /\ chat' = IF chat.pos = Len(chat.tool_calls)
                   THEN ChatReturned("tools", <<>>, chat.tool_calls, results, started, ends)
                   ELSE [chat EXCEPT !.pos = chat.pos + 1, !.results = results,
                                     !.started = started, !.ends = ends]
        /\ UNCHANGED coord
        /\ UNCHANGED nonCoordVars

(***************************************************************************)
(* Coordinators: claims                                                    *)
(***************************************************************************)
\* C19: when the reasoning call returns plain text with no invocations,
\* chat_execute returns exactly one response, with success = true and data
\* equal to the text content, and no agent operation is started (the adapters'
\* caches and the transport stay as they were).
C19_PlainText ==
    [][/\ (chat.pc = "done" /\ chat.reply = "text") =>
            /\ chat.outcome = "return"
            /\ Len(chat.results) = 1
            /\ chat.results[1].success
            /\ chat.results[1].data.type = "str"
            /\ chat.results[1].data.text = chat.content
            /\ chat.started = <<>>
       /\ (chat'.reply = "text" /\ chat' # chat) =>
            /\ cache' = cache
            /\ backend' = backend
            /\ connected' = connected
            /\ req' = req
      ]_vars

\* chat_execute has returned a non-empty text of an initialized coordinator.
C19_Witness ==
    /\ chat.pc = "done"
    /\ chat.reply = "text"
    /\ chat.content = <<"h", "i">>
    /\ coord.llm_agent
    /\ chat.results[1].data.text = <<"h", "i">>

\* C20: when the reasoning call returns one invocation whose operation name
\* is not in the coordinator's operation table, chat_execute returns exactly
\* one response, with success = false and an error message that names the
\* unknown operation, whatever the availability of the agents.
C20_UnknownOperation ==
    (/\ chat.pc = "done"
     /\ chat.reply = "tools"
     /\ Len(chat.tool_calls) = 1
     /\ chat.tool_calls[1].json_ok
     /\ chat.tool_calls[1].name \notin OperationTable(coord.kind)) =>
        /\ chat.outcome = "return"
        /\ Len(chat.results) = 1
        /\ ~chat.results[1].success
        /\ Contains(chat.results[1].error_message, chat.tool_calls[1].name)

\* The name a response carries for the invocation of an operation.
ResponderName(kind, name) ==
    IF kind = "adk" THEN name ELSE <<"scrum_master_">> \o name

\* The agent behind an operation name failed to initialize.
AgentUnavailable(co, name) ==
    /\ co.kind = "adk"
    /\ \/ name \in JiraTools /\ ~co.jira_available
       \/ name \in ConfluenceTools /\ ~co.confluence_available

\* The invocation at position i failed: unparsable arguments, an unknown
\* operation, an unavailable agent or a raising operation.
InvocationFailed(i) ==
    LET inv == chat'.tool_calls[i]
    IN  \/ ~inv.json_ok
        \/ inv.name \notin OperationTable(coord.kind)
        \/ AgentUnavailable(coord, inv.name)
        \/ chat'.ends[i] \in Raising

\* chat_execute returns from the loop over the invocations in this step.
ReturnsFromTools == chat.pc = "tools" /\ chat'.pc = "done"

\* C21: for a reasoning result with n invocations chat_execute returns n
\* responses, the i-th for the i-th invocation; an invocation that fails
\* (unparsable arguments, unknown operation, unavailable agent, raising
\* operation) has success = false at its position and at no other, and the
\* invocations after it are still dispatched.
C21_OneResponsePerInvocation ==
    [][ReturnsFromTools =>
          /\ Len(chat'.results) = Len(chat'.tool_calls)
          /\ Len(chat'.ends) = Len(chat'.tool_calls)
          /\ \A i \in DOMAIN chat'.tool_calls :
                /\ chat'.results[i].agent_name
                      = ResponderName(coord.kind, chat'.tool_calls[i].name)
                /\ InvocationFailed(i) => ~chat'.results[i].success
                /\ (~InvocationFailed(i) /\ chat'.ends[i] = "record") =>
                        chat'.results[i].success
                /\ (~InvocationFailed(i)) => chat'.ends[i] # "not_started"
      ]_vars

\* C22: chat_execute returns a list of responses rather than raising, for
\* every failure of the reasoning call, of an agent operation or of the
\* lookup of an action.
C22_EntryPointsReturn ==
    (chat.pc = "done" /\ chat.reply # "no_llm") => chat.outcome = "return"

\* The step dispatches the invocation at the current position of the ADK
\* coordinator's loop.
AdkDispatch == coord.kind = "adk" /\ chat.pc = "tools" /\ chat' # chat

\* C23: the ADK coordinator's initialize returns true even when one or both
\* agents fail to initialize; afterwards an invocation of an operation of an
\* agent that failed to initialize yields success = false without a call of
\* that agent, and an operation of an agent that initialized is executed.
C23_DegradedInitialize ==
    [][/\ (coord.kind = "adk" /\ coord'.init_result # "none") =>
            /\ coord'.init_result = "true"
            /\ coord'.llm_agent
       /\ AdkDispatch =>
            LET i == chat.pos
                inv == chat.tool_calls[i]
            IN  /\ AgentUnavailable(coord, inv.name) =>
                        /\ ~chat'.results[i].success
                        /\ chat'.ends[i] = "not_started"
                        /\ chat'.started = chat.started
                /\ (/\ inv.json_ok
                     /\ inv.name \in JiraTools \cup ConfluenceTools
                     /\ ~AgentUnavailable(coord, inv.name)) =>
                        /\ chat'.ends[i] # "not_started"
                        /\ chat'.started = Append(chat.started, inv.name)
      ]_vars

\* With the Jira agent down and the Confluence agent up, a Jira operation was
\* refused without a call and a Confluence operation after it was executed.
C23_Witness ==
    /\ coord.kind = "adk"
    /\ coord.init_result = "true"
    /\ ~coord.jira_available
    /\ coord.confluence_available
    /\ chat.pc = "done"
    /\ Len(chat.tool_calls) = 2
    /\ chat.tool_calls[1].name \in JiraTools
    /\ chat.tool_calls[2].name \in ConfluenceTools
    /\ chat.ends = <<"not_started", "record">>
    /\ ~chat.results[1].success
    /\ chat.results[2].success

\* The positions of the list whose agent operation was started.
StartedPositions == {i \in DOMAIN chat.ends : chat.ends[i] # "not_started"}

ActionReportsError(i) ==
    \/ chat.tool_calls[i].name \notin OperationTable("scrum")
    \/ chat.ends[i] \in {"error_dict", "raises", "raises_silent"}

\* C35: in ScrumMasterCoordinator.chat_execute an invocation whose action
\* reports an error (unknown action, raising action, conduct_standup or
\* generate_burndown without an active sprint, also as part of
\* sprint_report) is returned with success = false and the error message;
\* success = true is returned only when the action produced a record
\* without error.
C35_ActionErrorsReported ==
    coord.kind = "scrum" =>
        \A i \in DOMAIN chat.results :
            (chat.reply = "tools" /\ i \in DOMAIN chat.ends) =>
                /\ ActionReportsError(i) =>
                      /\ ~chat.results[i].success
                      /\ chat.results[i].error_message # <<>>
                /\ chat.results[i].success =>
                      /\ chat.ends[i] = "record"
                      /\ chat.tool_calls[i].name \in OperationTable("scrum")

\* The Scrum Master coordinator asked for reports.
NextScrum ==
    \/ CoordConstruct("scrum")
    \/ \E scrum_master_ok \in BOOLEAN : CoordInitialize(TRUE, TRUE, scrum_master_ok)
    \/ \E reply \in ReportReplies : ChatExecute(reply)
    \/ \E outcome \in OpOutcomes : InvokeNext(outcome)

NextCoord ==
    \/ \E kind \in CoordKinds : CoordConstruct(kind)
    \/ \E jira_ok \in BOOLEAN, confluence_ok \in BOOLEAN, scrum_master_ok \in BOOLEAN :
          CoordInitialize(jira_ok, confluence_ok, scrum_master_ok)
    \/ \E kind \in CoordKinds : \E reply \in ReasoningReplies(kind) : ChatExecute(reply)
    \/ \E outcome \in OpOutcomes : InvokeNext(outcome)


Init == InitOrch /\ InitMcp /\ InitCache /\ InitTtl /\ InitShutdown /\ InitCoord /\ InitFind

\* The specifications of the orchestrator, of the client and of the cache
\* methods do not involve an adapter: they start with the first one.
\* The specifications that do not run an adapter fix the adapter kind.
InitJira == Init /\ agent_kind = "jira"

SpecOrch == InitJira /\ [][NextOrch]_vars

SpecShutdown == InitJira /\ [][NextShutdown]_vars

SpecRegister == InitJira /\ [][NextRegister]_vars

SpecCoord == InitJira /\ [][NextCoord]_vars

SpecScrum == InitJira /\ [][NextScrum]_vars

SpecFair == InitJira /\ [][NextFair]_vars /\ Fairness

SpecMcp == InitJira /\ [][NextMcp]_vars

SpecFind == InitJira /\ [][NextFind]_vars

SpecCache == Init /\ [][NextCache]_vars

SpecOverlap == InitJira /\ [][NextOverlap]_vars

SpecTtl == InitJira /\ [][NextTtl]_vars

SpecInval == InitJira /\ [][NextInval]_vars

====
